---- MODULE Spec2Model ----
(***************************************************************************)
(* riskEngine: the simulator driver (MarketSimulator), the revaluation     *)
(* visitors, positions and portfolios, as a state machine.                 *)
(*                                                                         *)
(* Numbers.  The program computes in double; the model computes in exact   *)
(* rationals <<n, d>> (d > 0, lowest terms), so rounding error is not      *)
(* modelled.  exp, log, sqrt and erfc have no rational value: the GBM      *)
(* factor and the Black-Scholes closed form for T > 0 are represented by   *)
(* rational surrogates that read the same arguments (see GbmFactor and     *)
(* ClosedForm).  The Mersenne twister is represented by a small linear     *)
(* congruential generator.                                                 *)
(***************************************************************************)
EXTENDS Integers, Sequences, FiniteSets, TLC

(***************************************************************************)
(* Bounds of the model.                                                    *)
(***************************************************************************)
MaxPortfolios == 2
MaxPositions == 2
MaxCalls == 2
MaxSteps == 3

(***************************************************************************)
(* Exact rational arithmetic standing for double.                          *)
(***************************************************************************)
RECURSIVE Gcd(_, _)
Gcd(a, b) == IF b = 0 THEN a ELSE Gcd(b, a % b)

Abs(x) == IF x < 0 THEN -x ELSE x

Rat(n, d) ==
    LET s == IF d < 0 THEN -1 ELSE 1
        g == Gcd(Abs(n), Abs(d))
    IN  <<(s * n) \div g, (s * d) \div g>>

FromInt(n) == <<n, 1>>
Zero == <<0, 1>>
One == <<1, 1>>

Lcm(a, b) == (a \div Gcd(a, b)) * b

RAdd(x, y) ==
    LET l == Lcm(x[2], y[2])
    IN  Rat(x[1] * (l \div x[2]) + y[1] * (l \div y[2]), l)

RNeg(x) == <<-x[1], x[2]>>
RSub(x, y) == RAdd(x, RNeg(y))

RMul(x, y) ==
    LET g1 == Gcd(Abs(x[1]), y[2])
        g2 == Gcd(Abs(y[1]), x[2])
    IN  Rat((x[1] \div g1) * (y[1] \div g2), (x[2] \div g2) * (y[2] \div g1))

RLt(x, y) == RSub(x, y)[1] < 0
RLe(x, y) == RSub(x, y)[1] <= 0
RMax(x, y) == IF RLt(x, y) THEN y ELSE x

\* static_cast<size_t>(x) for x >= 0: truncation
RFloor(x) == x[1] \div x[2]

\* x / y for y # 0
RDiv(x, y) == RMul(x, Rat(y[2], y[1]))

\* std::sqrt(x) for x >= 0, rounded down to a multiple of 1 / x[2]
RSqrt(x) ==
    LET n == x[1] * x[2]
    IN  Rat(CHOOSE k \in 0..n : k * k <= n /\ n < (k + 1) * (k + 1), x[2])

(***************************************************************************)
(* double itself, for the additions whose rounding matters: IEEE 754       *)
(* binary64 with round-to-nearest-even.  A number is a sign s, a           *)
(* significand m of MantissaBits bits, least significant first and with    *)
(* its top bit set, and the exponent e of its lowest bit; zero has the     *)
(* empty significand.  Exponent overflow and subnormal numbers do not      *)
(* arise for the magnitudes of interest rates.                             *)
(***************************************************************************)
MantissaBits == 53

Zeros(k) == [i \in 1..k |-> 0]

\* a + b + carry, on bits
RECURSIVE BitsAdd(_, _, _)
BitsAdd(a, b, carry) ==
    IF a = <<>> /\ b = <<>>
    THEN IF carry = 1 THEN <<1>> ELSE <<>>
    ELSE LET t == (IF a = <<>> THEN 0 ELSE a[1]) + (IF b = <<>> THEN 0 ELSE b[1]) + carry
         IN  <<t % 2>> \o BitsAdd(IF a = <<>> THEN a ELSE Tail(a),
                                   IF b = <<>> THEN b ELSE Tail(b), t \div 2)

\* a - b - borrow for a >= b, on bits
RECURSIVE BitsSub(_, _, _)
BitsSub(a, b, borrow) ==
    IF a = <<>>
    THEN <<>>
    ELSE LET t == a[1] - (IF b = <<>> THEN 0 ELSE b[1]) - borrow
         IN  <<(t + 2) % 2>> \o BitsSub(Tail(a), IF b = <<>> THEN b ELSE Tail(b),
                                         IF t < 0 THEN 1 ELSE 0)

\* without the leading zeros
RECURSIVE Trim(_)
Trim(a) == IF a # <<>> /\ a[Len(a)] = 0 THEN Trim(SubSeq(a, 1, Len(a) - 1)) ELSE a

\* a < b for bits without leading zeros
RECURSIVE BitsLess(_, _)
BitsLess(a, b) ==
    IF Len(a) # Len(b) THEN Len(a) < Len(b)
    ELSE IF a = <<>> THEN FALSE
    ELSE IF a[Len(a)] # b[Len(b)] THEN a[Len(a)] < b[Len(b)]
    ELSE BitsLess(Trim(SubSeq(a, 1, Len(a) - 1)) , Trim(SubSeq(b, 1, Len(b) - 1)))

DZero == [s |-> 0, m |-> <<>>, e |-> 0]

\* the double nearest to (-1)^s * b * 2^e, ties to the even significand; b
\* has no leading zeros
DRound(s, b, e) ==
    IF b = <<>> THEN DZero
    ELSE IF Len(b) <= MantissaBits
    THEN [s |-> s, m |-> Zeros(MantissaBits - Len(b)) \o b, e |-> e - (MantissaBits - Len(b))]
    ELSE LET d == Len(b) - MantissaBits
             kept == SubSeq(b, d + 1, Len(b))
             up == b[d] = 1 /\ (kept[1] = 1 \/ \E i \in 1..(d - 1) : b[i] = 1)
             r == IF up THEN BitsAdd(kept, <<1>>, 0) ELSE kept
         IN  IF Len(r) > MantissaBits
             THEN [s |-> s, m |-> Tail(r), e |-> e + d + 1]
             ELSE [s |-> s, m |-> r, e |-> e + d]

\* x + y on double
DAdd(x, y) ==
    IF x.m = <<>> THEN y
    ELSE IF y.m = <<>> THEN x
    ELSE LET e == IF x.e < y.e THEN x.e ELSE y.e
             a == Zeros(x.e - e) \o x.m
             b == Zeros(y.e - e) \o y.m
         IN  IF x.s = y.s THEN DRound(x.s, BitsAdd(a, b, 0), e)
             ELSE IF BitsLess(b, a) THEN DRound(x.s, Trim(BitsSub(a, b, 0)), e)
             ELSE IF BitsLess(a, b) THEN DRound(y.s, Trim(BitsSub(b, a, 0)), e)
             ELSE DZero

\* -x on double
DNeg(x) == IF x.m = <<>> THEN x ELSE [x EXCEPT !.s = 1 - @]

\* the bits of the hexadecimal digits h, the last digit first
RECURSIVE HexBits(_)
HexBits(h) ==
    IF h = <<>> THEN <<>>
    ELSE LET x == h[Len(h)]
         IN  <<x % 2, (x \div 2) % 2, (x \div 4) % 2, (x \div 8) % 2>>
                 \o HexBits(SubSeq(h, 1, Len(h) - 1))

\* the positive double 0x1.h p exp, as a literal names it
Double(h, exp) == [s |-> 0, m |-> HexBits(h) \o <<1>>, e |-> exp - 4 * Len(h)]

(***************************************************************************)
(* The instruments the client constructs (main.cpp builds the same kinds   *)
(* of objects): shared objects, named here by their variable names.        *)
(* Prices, strikes and expiries are constructor arguments; the expiries    *)
(* are short so that options expire within the calls the model explores.   *)
(***************************************************************************)
Stocks == {"apple", "tesla", "google"}
Options == {"tesla_call", "apple_put"}
Bonds == {"treasury"}
Instruments == Stocks \cup Options \cup Bonds

ticker_ ==
    [i \in Instruments |->
        CASE i = "apple" -> "AAPL"
          [] i = "tesla" -> "TSLA"
          [] i = "google" -> "GOOGL"
          [] i = "tesla_call" -> "TSLA-C"
          [] i = "apple_put" -> "AAPL-P"
          [] OTHER -> "T-10Y"]

\* std::map<std::string, ...> iterates its keys in ascending order
TickerOrder == <<"AAPL", "GOOGL", "TSLA">>

underlying_ == [o \in Options |-> IF o = "tesla_call" THEN "tesla" ELSE "apple"]
type_ == [o \in Options |-> IF o = "tesla_call" THEN "Call" ELSE "Put"]
strike_ == [o \in Options |-> IF o = "tesla_call" THEN FromInt(110) ELSE FromInt(140)]
duration_ == [b \in Bonds |-> FromInt(10)]
\* a zero-coupon bond
coupon_rate_ == [b \in Bonds |-> Zero]

InitialPrice ==
    [i \in Instruments |->
        CASE i = "apple" -> FromInt(150)
          [] i = "tesla" -> FromInt(100)
          [] i = "google" -> FromInt(140)
          [] i = "tesla_call" -> FromInt(15)
          [] i = "apple_put" -> FromInt(8)
          [] OTHER -> FromInt(100)]

InitialTte == [o \in Options |-> IF o = "tesla_call" THEN Rat(1, 168) ELSE Rat(1, 252)]

\* constexpr double dt = 1.0 / 252.0
dt == Rat(1, 252)

(***************************************************************************)
(* Random numbers: std::mt19937 generator_ and                             *)
(* std::normal_distribution<double> normal_dist_.  The generator is a      *)
(* small congruential generator; the distribution produces its values in   *)
(* pairs and keeps the second one for the next call, as the standard       *)
(* library's implementation does.                                          *)
(***************************************************************************)
MtNext(g) == (5 * g + 3) % 8
MtSeed(seed) == seed % 8
ZOf(g) == FromInt((g % 3) - 1)

NewRng(seed) == [gen |-> MtSeed(seed), has |-> FALSE, saved |-> Zero]

\* normal_dist_(generator_): the value drawn and the state left behind
NormalDraw(rng) ==
    IF rng.has
    THEN [z |-> rng.saved, rng |-> [gen |-> rng.gen, has |-> FALSE, saved |-> Zero]]
    ELSE LET g1 == MtNext(rng.gen)
             g2 == MtNext(g1)
         IN  [z |-> ZOf(g2), rng |-> [gen |-> g2, has |-> TRUE, saved |-> ZOf(g1)]]

(***************************************************************************)
(* BlackScholesModel                                                       *)
(***************************************************************************)
\* BlackScholesModel(double rate = 0.05, double volatility = 0.20, unsigned seed = 42)
rate_ == Rat(1, 20)
volatility_ == Rat(1, 5)
DefaultSeed == 42

\* exp((r - 0.5 sigma^2) dt + sigma sqrt(dt) z): a positive factor, increasing
\* in z and in sigma * z; the drift term is dropped.
GbmFactor(r, sigma, step, z) == RAdd(One, RMul(sigma, z))

\* is_call ? std::max(0.0, S - K) : std::max(0.0, K - S)
Intrinsic(S, K, is_call) ==
    IF is_call THEN RMax(Zero, RSub(S, K)) ELSE RMax(Zero, RSub(K, S))

\* The closed form for T > 0: discounted intrinsic value (e^{-rT} taken to
\* first order) plus a time value S * sigma * T, which is positive for S > 0.
ClosedForm(S, K, T, r, sigma, is_call) ==
    LET Kd == RMul(K, RSub(One, RMul(r, T)))
    IN  RAdd(Intrinsic(S, Kd, is_call), RMul(RMul(S, sigma), T))

\* BlackScholesModel::price_option(S, K, T, r, sigma, is_call)
price_option(S, K, T, r, sigma, is_call) ==
    IF RLe(T, Zero)
    THEN Intrinsic(S, K, is_call)
    ELSE ClosedForm(S, K, T, r, sigma, is_call)

\* norm_cdf(x) = 0.5 erfc(-x / sqrt 2): increasing from 0 to 1, with
\* norm_cdf(-x) = 1 - norm_cdf(x); taken piecewise linear
norm_cdf(x) ==
    IF RLe(x, FromInt(-2)) THEN Zero
    ELSE IF RLe(FromInt(2), x) THEN One
    ELSE RAdd(Rat(1, 2), RMul(Rat(1, 4), x))

\* norm_pdf(x) = exp(-x^2 / 2) / sqrt(2 pi): even, 0.4 at 0; taken piecewise linear
norm_pdf(x) ==
    LET a == IF RLt(x, Zero) THEN RNeg(x) ELSE x
    IN  IF RLe(FromInt(2), a) THEN Zero ELSE RMul(Rat(1, 5), RSub(FromInt(2), a))

\* (std::log(S / K) + (r + 0.5 sigma^2) T) / (sigma sqrt_T), for S, K > 0 and
\* sigma # 0; log(S / K) is taken as 2 (S - K) / (S + K)
d1_of(S, K, T, r, sigma, sqrt_T) ==
    RDiv(RAdd(RDiv(RMul(FromInt(2), RSub(S, K)), RAdd(S, K)),
              RMul(RAdd(r, RMul(Rat(1, 2), RMul(sigma, sigma))), T)),
         RMul(sigma, sqrt_T))

\* struct Greeks: every member is 0.0 by default
Greeks(delta, gamma, vega, theta, rho) ==
    [delta |-> delta, gamma |-> gamma, vega |-> vega, theta |-> theta, rho |-> rho]
NoGreeks == Greeks(Zero, Zero, Zero, Zero, Zero)

\* a put delta written -N(d1)
delta_of_Mirrored(nd1, is_call) == IF is_call THEN nd1 ELSE RNeg(nd1)

\* g.delta = is_call ? nd1 : (nd1 - 1.0)
delta_of(nd1, is_call) == IF is_call THEN nd1 ELSE RSub(nd1, One)

\* the T > 0 branch of calculate_greeks, given sqrt_T, d1, d2 and the discount
\* factor exp(-r T) (taken to first order)
greeks_closed_form(S, K, T, r, sigma, is_call, sqrt_T, d1, d2, discount) ==
    Greeks(delta_of(norm_cdf(d1), is_call),
           RDiv(norm_pdf(d1), RMul(RMul(S, sigma), sqrt_T)),
           RMul(RMul(S, norm_pdf(d1)), sqrt_T),
           IF is_call
           THEN RSub(RNeg(RDiv(RMul(RMul(S, norm_pdf(d1)), sigma), RMul(FromInt(2), sqrt_T))),
                     RMul(RMul(RMul(r, K), discount), norm_cdf(d2)))
           ELSE RAdd(RNeg(RDiv(RMul(RMul(S, norm_pdf(d1)), sigma), RMul(FromInt(2), sqrt_T))),
                     RMul(RMul(RMul(r, K), discount), norm_cdf(RNeg(d2)))),
           IF is_call
           THEN RMul(RMul(RMul(K, T), discount), norm_cdf(d2))
           ELSE RNeg(RMul(RMul(RMul(K, T), discount), norm_cdf(RNeg(d2)))))

greeks_with_d1(S, K, T, r, sigma, is_call, sqrt_T, d1) ==
    greeks_closed_form(S, K, T, r, sigma, is_call, sqrt_T, d1,
                       RSub(d1, RMul(sigma, sqrt_T)), RSub(One, RMul(r, T)))

greeks_with_sqrt(S, K, T, r, sigma, is_call, sqrt_T) ==
    greeks_with_d1(S, K, T, r, sigma, is_call, sqrt_T, d1_of(S, K, T, r, sigma, sqrt_T))

\* BlackScholesModel::calculate_greeks(S, K, T, r, sigma, is_call)
calculate_greeks(S, K, T, r, sigma, is_call) ==
    IF RLe(T, Zero)
    THEN [NoGreeks EXCEPT !.delta =
             IF is_call
             THEN (IF RLt(K, S) THEN One ELSE Zero)
             ELSE (IF RLt(S, K) THEN FromInt(-1) ELSE Zero)]
    ELSE greeks_with_sqrt(S, K, T, r, sigma, is_call, RSqrt(T))

\* BlackScholesModel::set_seed: generator_.seed(seed); normal_dist_ is not
\* touched and keeps the second value of its last pair
set_seed(rng, seed) == [rng EXCEPT !.gen = MtSeed(seed)]

\* BlackScholesModel::simulate_step(current_price, dt): draws from the model's
\* own generator
simulate_step(rng, current_price, step) ==
    LET d == NormalDraw(rng)
    IN  [value |-> RMul(current_price, GbmFactor(rate_, volatility_, step, d.z)),
         rng |-> d.rng]

(***************************************************************************)
(* The revaluation visitors.  They act on the instrument objects, given    *)
(* here as a record h: price (current_price_ of every instrument), tte     *)
(* (time_to_expiry_ of every option), rng (the model's generator and       *)
(* distribution) and log (the instruments whose set_price was called, in   *)
(* the order of the calls).                                                *)
(***************************************************************************)
set_price(h, i, p) == [h EXCEPT !.price[i] = p, !.log = Append(@, i)]

\* MonteCarloSimulationVisitor::visit(Stock&)
MonteCarlo_visit_Stock(h, v, s) ==
    LET r == simulate_step(h.rng, h.price[s], v.dt_)
    IN  set_price([h EXCEPT !.rng = r.rng], s, r.value)

\* MonteCarloSimulationVisitor::visit(Option&)
MonteCarlo_visit_Option(h, v, o) ==
    LET t0 == RSub(h.tte[o], v.dt_)
        t == IF RLt(t0, Zero) THEN Zero ELSE t0
        S == h.price[underlying_[o]]
        new_price == price_option(S, strike_[o], t, rate_, volatility_, type_[o] = "Call")
    IN  set_price([h EXCEPT !.tte[o] = t], o, new_price)

\* a visitor that passes over bonds
MonteCarlo_visit_Bond_Skip(h, v, b) == h

\* MonteCarloSimulationVisitor::visit(Bond&)
MonteCarlo_visit_Bond(h, v, b) ==
    LET r == simulate_step(h.rng, One, v.dt_)
        rate_change == RMul(RSub(r.value, One), Rat(1, 10))
        p1 == RMul(h.price[b], RSub(One, RMul(duration_[b], rate_change)))
        new_price == RAdd(p1, RMul(RMul(coupon_rate_[b], v.dt_), FromInt(100)))
    IN  set_price([h EXCEPT !.rng = r.rng], b, new_price)

\* a visitor that always reads the first return
HistoricalSimulationVisitor_FirstDay(returns, day_index) ==
    [kind |-> "historical", historical_returns_ |-> returns, day_index_ |-> 0]

\* HistoricalSimulationVisitor(historical_returns, day_index): the index is
\* reduced modulo the size (0-based in the code, sequences here are 1-based)
HistoricalSimulationVisitor(returns, day_index) ==
    [kind |-> "historical", historical_returns_ |-> returns,
     day_index_ |-> day_index % Len(returns)]

\* HistoricalSimulationVisitor::visit(Stock&)
Historical_visit_Stock(h, v, s) ==
    LET return_today == v.historical_returns_[v.day_index_ + 1]
    IN  set_price(h, s, RMul(h.price[s], RAdd(One, return_today)))

\* HistoricalSimulationVisitor::visit(Option&)
Historical_visit_Option(h, v, o) ==
    LET t0 == RSub(h.tte[o], Rat(1, 252))
        t == IF RLt(t0, Zero) THEN Zero ELSE t0
        S == h.price[underlying_[o]]
        intrinsic == Intrinsic(S, strike_[o], type_[o] = "Call")
        time_value == RMul(h.price[o], Rat(99, 100))
    IN  set_price([h EXCEPT !.tte[o] = t], o, RMax(intrinsic, time_value))

\* HistoricalSimulationVisitor::visit(Bond&)
Historical_visit_Bond(h, v, b) ==
    LET rate_return == RMul(v.historical_returns_[v.day_index_ + 1], Rat(1, 10))
        p1 == RMul(h.price[b], RSub(One, RMul(duration_[b], rate_return)))
        new_price == RAdd(p1, RMul(RMul(coupon_rate_[b], Rat(1, 252)), FromInt(100)))
    IN  set_price(h, b, new_price)

\* StressTestVisitor::visit(Stock&)
Stress_visit_Stock(h, v, s) ==
    set_price(h, s, RMul(h.price[s], RAdd(One, v.price_shock_)))

\* a stress visitor that lets a day pass for the option
Stress_visit_Option_Decaying(h, v, o) ==
    MonteCarlo_visit_Option(h, [kind |-> "montecarlo", dt_ |-> dt], o)

\* StressTestVisitor::visit(Option&)
Stress_visit_Option(h, v, o) ==
    LET S == h.price[underlying_[o]]
        stressed_vol == RAdd(Rat(1, 5), v.vol_shock_)
        r == RAdd(Rat(1, 20), v.rate_shock_)
    IN  set_price(h, o, price_option(S, strike_[o], h.tte[o], r, stressed_vol,
                                     type_[o] = "Call"))

\* StressTestVisitor::visit(Bond&)
Stress_visit_Bond(h, v, b) ==
    set_price(h, b, RMul(h.price[b], RSub(One, RMul(duration_[b], v.rate_shock_))))

\* Instrument::accept(InstrumentVisitor&): double dispatch on the visitor and
\* on the dynamic type of the instrument
Instrument_accept(h, v, i) ==
    CASE v.kind = "montecarlo" /\ i \in Stocks -> MonteCarlo_visit_Stock(h, v, i)
      [] v.kind = "montecarlo" /\ i \in Options -> MonteCarlo_visit_Option(h, v, i)
      [] v.kind = "montecarlo" /\ i \in Bonds -> MonteCarlo_visit_Bond(h, v, i)
      [] v.kind = "historical" /\ i \in Stocks -> Historical_visit_Stock(h, v, i)
      [] v.kind = "historical" /\ i \in Options -> Historical_visit_Option(h, v, i)
      [] v.kind = "historical" /\ i \in Bonds -> Historical_visit_Bond(h, v, i)
      [] v.kind = "stress" /\ i \in Stocks -> Stress_visit_Stock(h, v, i)
      [] v.kind = "stress" /\ i \in Options -> Stress_visit_Option(h, v, i)
      [] OTHER -> Stress_visit_Bond(h, v, i)

(***************************************************************************)
(* Position and Portfolio.  A position is a record                         *)
(* [instrument_, quantity_, last_price_]; a portfolio is the sequence      *)
(* positions_.                                                             *)
(***************************************************************************)
\* Position(instrument, quantity): last_price_(instrument->get_price())
Position(price, i, q) == [instrument_ |-> i, quantity_ |-> q, last_price_ |-> price[i]]

\* Position::get_market_value
get_market_value(price, pos) == RMul(FromInt(pos.quantity_), price[pos.instrument_])

\* a snapshot that keeps the old reference price
snapshot_price_Keep(price, pos) == pos

\* Position::snapshot_price
snapshot_price(price, pos) == [pos EXCEPT !.last_price_ = price[pos.instrument_]]

\* Position::get_pnl
get_pnl(price, pos) ==
    RMul(FromInt(pos.quantity_), RSub(price[pos.instrument_], pos.last_price_))

RECURSIVE RSum(_)
RSum(xs) == IF xs = <<>> THEN Zero ELSE RAdd(Head(xs), RSum(Tail(xs)))

\* Portfolio::get_total_value
get_total_value(price, positions) ==
    RSum([k \in 1..Len(positions) |-> get_market_value(price, positions[k])])

\* Portfolio::get_total_pnl
get_total_pnl(price, positions) ==
    RSum([k \in 1..Len(positions) |-> get_pnl(price, positions[k])])

\* Portfolio::snapshot_prices
snapshot_prices(price, positions) ==
    [k \in 1..Len(positions) |-> snapshot_price(price, positions[k])]

\* Portfolio::accept(InstrumentVisitor&): the positions in order, one visit
\* per position
RECURSIVE Portfolio_accept(_, _, _)
Portfolio_accept(h, v, positions) ==
    IF positions = <<>>
    THEN h
    ELSE Portfolio_accept(Instrument_accept(h, v, Head(positions).instrument_), v,
                          Tail(positions))

(***************************************************************************)
(* Finite maps (std::map): functions whose domain is the set of keys.      *)
(***************************************************************************)
EmptyMap == [k \in {} |-> Zero]
MapPut(m, k, v) == [x \in (DOMAIN m) \cup {k} |-> IF x = k THEN v ELSE m[x]]

\* the keys of a map in ascending order, as std::map iterates them
SortedKeys(m) == SelectSeq(TickerOrder, LAMBDA t : t \in DOMAIN m)

(***************************************************************************)
(* MarketEnvironment and CorrelationMatrix.  The correlation matrix is an  *)
(* ordered ticker list with its lower-triangular Cholesky factor L;        *)
(* size() is the number of tickers and correlate(z) is L * z.              *)
(***************************************************************************)
NoCorrelation == [tickers |-> <<>>, L |-> <<>>]

\* rho(AAPL, TSLA) = 3/5, whose Cholesky factor is rational
CorrAaplTsla ==
    [tickers |-> <<"AAPL", "TSLA">>,
     L |-> << <<One, Zero>>, <<Rat(3, 5), Rat(4, 5)>> >>]

\* a matrix over a ticker that no instrument of the portfolios carries
CorrGoogl == [tickers |-> <<"GOOGL">>, L |-> << <<One>> >>]

CorrelationMatrices == {NoCorrelation, CorrAaplTsla, CorrGoogl}

\* the same correlation with the tickers listed in the other order, and a
\* matrix of the same size over another pair of tickers
CorrTslaAapl == [CorrAaplTsla EXCEPT !.tickers = <<"TSLA", "AAPL">>]
CorrGooglTsla == [CorrAaplTsla EXCEPT !.tickers = <<"GOOGL", "TSLA">>]
OrderedMatrices == {NoCorrelation, CorrAaplTsla, CorrTslaAapl, CorrGooglTsla, CorrGoogl}

CorrelationMatrix_size(corr) == Len(corr.tickers)

RECURSIVE Dot(_, _)
Dot(row, z) ==
    IF row = <<>> THEN Zero ELSE RAdd(RMul(Head(row), Head(z)), Dot(Tail(row), Tail(z)))

CorrelationMatrix_correlate(corr, z) == [k \in 1..Len(z) |-> Dot(corr.L[k], z)]

\* MarketEnvironment() = default: no stored curve or surface, so every lookup
\* falls back to default_yield_curve_{0.05} and default_vol_surface_{0.20}
DefaultEnvironment ==
    [correlation_ |-> NoCorrelation, flat_rate_ |-> Rat(1, 20), flat_vol_ |-> Rat(1, 5)]

MarketEnvironment_get_rate(env, T) == env.flat_rate_
MarketEnvironment_get_vol(env, ticker, strike, expiry) == env.flat_vol_

\* BlackScholesModel::price_option(S, K, T, ticker, env, is_call)
price_option_env(S, K, T, ticker, env, is_call) ==
    price_option(S, K, T, MarketEnvironment_get_rate(env, T),
                 MarketEnvironment_get_vol(env, ticker, K, T), is_call)

\* BlackScholesModel::simulate_step(current_price, dt, random_z, ticker, env)
simulate_step_z(current_price, step, random_z, ticker, env) ==
    RMul(current_price,
         GbmFactor(MarketEnvironment_get_rate(env, Rat(1, 365)),
                   MarketEnvironment_get_vol(env, ticker, Zero, step), step, random_z))

(***************************************************************************)
(* JumpDiffusionModel: jump_intensity_ (lambda), generator_, normal_dist_, *)
(* poisson_dist_ (given by the mean it was constructed with) and           *)
(* jump_size_dist_.  A distribution object of the normal kind is the pair  *)
(* [has, saved] of its cache.  exp(drift + diffusion + jumps) is taken to  *)
(* first order, like GbmFactor.                                            *)
(***************************************************************************)
\* JumpDiffusionModel(rate = 0.05, volatility = 0.20, jump_intensity = 1.0,
\*                    jump_mean = -0.05, jump_vol = 0.10, seed = 42)
jump_mean_ == Rat(-1, 20)
jump_vol_ == Rat(1, 10)
DefaultJumpIntensity == One

NewJumpModel(jump_intensity, seed) ==
    [jump_intensity_ |-> jump_intensity,
     generator_ |-> MtSeed(seed),
     normal_dist_ |-> [has |-> FALSE, saved |-> Zero],
     poisson_dist_ |-> [mean |-> jump_intensity],
     jump_size_dist_ |-> [has |-> FALSE, saved |-> Zero],
     steps |-> 0]

\* dist(generator_) for a normal distribution object dist
DrawFrom(gen, dist) == NormalDraw([gen |-> gen, has |-> dist.has, saved |-> dist.saved])

\* poisson_dist(generator_): an integer whose expectation over the values of
\* the generator is the mean of the distribution (the mean rounded down or up
\* by one uniform draw)
PoissonDraw(dist, gen) ==
    [n |-> RFloor(RAdd(dist.mean, Rat(MtNext(gen), 8))), gen |-> MtNext(gen)]

\* the loop over the jumps: jump_component += jump_size_dist_(generator_),
\* from the loop state acc = [sum, gen, dist]
RECURSIVE jump_sizes(_, _)
jump_sizes(acc, num_jumps) ==
    IF num_jumps = 0
    THEN acc
    ELSE LET d == DrawFrom(acc.gen, acc.dist)
         IN  jump_sizes([sum |-> RAdd(acc.sum, RAdd(jump_mean_, RMul(jump_vol_, d.z))),
                         gen |-> d.rng.gen,
                         dist |-> [has |-> d.rng.has, saved |-> d.rng.saved]],
                        num_jumps - 1)

\* the part the two simulate_step of JumpDiffusionModel share, from the shock
\* z on: num_jumps = poisson_dist_(generator_), the jump sizes, the new
\* price; with the mean and the generator state of the Poisson draw
jump_step(j, current_price, step, z, r, sigma, poisson_dist) ==
    LET p == PoissonDraw(poisson_dist, j.generator_)
        jumps == jump_sizes([sum |-> Zero, gen |-> p.gen, dist |-> j.jump_size_dist_], p.n)
    IN  [value |-> RMul(current_price, RAdd(GbmFactor(r, sigma, step, z), jumps.sum)),
         num_jumps |-> p.n,
         poisson_mean |-> poisson_dist.mean,
         poisson_gen |-> j.generator_,
         model |-> [j EXCEPT !.generator_ = jumps.gen, !.jump_size_dist_ = jumps.dist,
                             !.steps = @ + 1]]

\* JumpDiffusionModel::simulate_step(current_price, dt)
JumpDiffusion_simulate_step(j, current_price, step) ==
    LET d == DrawFrom(j.generator_, j.normal_dist_)
    IN  jump_step([j EXCEPT !.generator_ = d.rng.gen,
                            !.normal_dist_ = [has |-> d.rng.has, saved |-> d.rng.saved]],
                  current_price, step, d.z, rate_, volatility_, j.poisson_dist_)

\* JumpDiffusionModel::simulate_step(current_price, dt, random_z, ticker, env)
JumpDiffusion_simulate_step_z(j, current_price, step, random_z, ticker, env) ==
    jump_step(j, current_price, step, random_z,
              MarketEnvironment_get_rate(env, Rat(1, 365)),
              MarketEnvironment_get_vol(env, ticker, Zero, step), j.poisson_dist_)

(***************************************************************************)
(* MultiAssetSimulator                                                     *)
(***************************************************************************)
\* n draws from the simulator's own generator: the values and the state left
RECURSIVE DrawN(_, _)
DrawN(rng, n) ==
    IF n = 0
    THEN [z |-> <<>>, rng |-> rng]
    ELSE LET d == NormalDraw(rng)
             rest == DrawN(d.rng, n - 1)
         IN  [z |-> <<d.z>> \o rest.z, rng |-> rest.rng]

\* MultiAssetSimulator::generate_correlated_shocks
generate_correlated_shocks(rng, tickers, env) ==
    LET n == Len(tickers)
        draws == DrawN(rng, n)
        correlated_z == IF CorrelationMatrix_size(env.correlation_) = n
                        THEN CorrelationMatrix_correlate(env.correlation_, draws.z)
                        ELSE draws.z
    IN  [result |-> [t \in {tickers[k] : k \in 1..n} |->
                        correlated_z[CHOOSE k \in 1..n : tickers[k] = t]],
         rng |-> draws.rng]

\* MultiAssetSimulator::simulate_market_step
simulate_market_step(rng, current_prices, step, env) ==
    LET tickers == SortedKeys(current_prices)
        shocks == generate_correlated_shocks(rng, tickers, env)
    IN  [new_prices |-> [t \in DOMAIN current_prices |->
                            simulate_step_z(current_prices[t], step, shocks.result[t], t, env)],
         rng |-> shocks.rng]

(***************************************************************************)
(* MarketSimulator.  Its operations are functions of the record m of the   *)
(* simulator and the objects it reaches: portfolios_, price, tte,          *)
(* rng (the generator of model_), mrng (the generator of                   *)
(* multi_asset_sim_), day (simulation_day_count_), env (market_env_),      *)
(* log (set_price calls of the operation) and daily (the locals of the     *)
(* last simulate_daily: the branch taken, current_prices, new_prices).     *)
(***************************************************************************)
Heap(m) == [price |-> m.price, tte |-> m.tte, rng |-> m.rng, log |-> m.log]
WithHeap(m, h) == [m EXCEPT !.price = h.price, !.tte = h.tte, !.rng = h.rng, !.log = h.log]

\* MarketSimulator::collect_stocks: acc is [prices, stock_ptrs]
RECURSIVE collect_stocks(_, _, _)
collect_stocks(price, positions, acc) ==
    IF positions = <<>>
    THEN acc
    ELSE LET inst == Head(positions).instrument_
             t == IF inst \in Options THEN ticker_[underlying_[inst]] ELSE ticker_[inst]
             next ==
                 CASE inst \in Stocks /\ t \notin DOMAIN acc.prices ->
                        [prices |-> MapPut(acc.prices, t, price[inst]),
                         stock_ptrs |-> MapPut(acc.stock_ptrs, t, inst)]
                   [] inst \in Options /\ t \notin DOMAIN acc.prices ->
                        [prices |-> MapPut(acc.prices, t, price[underlying_[inst]]),
                         stock_ptrs |-> acc.stock_ptrs]
                   [] OTHER -> acc
         IN  collect_stocks(price, Tail(positions), next)

\* the first loop of simulate_daily over the portfolios
RECURSIVE collect_all(_, _, _)
collect_all(price, pfs, acc) ==
    IF pfs = <<>>
    THEN acc
    ELSE collect_all(price, Tail(pfs), collect_stocks(price, Head(pfs), acc))

\* MarketSimulator::update_options
RECURSIVE update_options(_, _, _, _)
update_options(h, env, positions, step) ==
    IF positions = <<>>
    THEN h
    ELSE LET o == Head(positions).instrument_
             h1 == IF o \notin Options
                   THEN h
                   ELSE LET new_tte == RSub(h.tte[o], step)
                            T == RMax(Zero, new_tte)
                            S == h.price[underlying_[o]]
                            K == strike_[o]
                            is_call == type_[o] = "Call"
                            new_price ==
                                IF RLt(Zero, T)
                                THEN IF CorrelationMatrix_size(env.correlation_) > 0
                                     THEN price_option_env(S, K, T, ticker_[underlying_[o]],
                                                           env, is_call)
                                     ELSE price_option(S, K, T, rate_, volatility_, is_call)
                                ELSE Intrinsic(S, K, is_call)
                        IN  set_price([h EXCEPT !.tte[o] = T], o, new_price)
         IN  update_options(h1, env, Tail(positions), step)

\* a visitor, or update_options, applied to the portfolios in order
RECURSIVE accept_all(_, _, _)
accept_all(h, v, pfs) ==
    IF pfs = <<>> THEN h ELSE accept_all(Portfolio_accept(h, v, Head(pfs)), v, Tail(pfs))

RECURSIVE update_options_all(_, _, _, _)
update_options_all(h, env, pfs, step) ==
    IF pfs = <<>>
    THEN h
    ELSE update_options_all(update_options(h, env, Head(pfs), step), env, Tail(pfs), step)

\* "Update stock prices": for each (ticker, new_price) of new_prices, in
\* ascending ticker order, set the price of the collected Stock, if any
RECURSIVE update_stocks(_, _, _, _)
update_stocks(h, tickers, new_prices, stock_ptrs) ==
    IF tickers = <<>>
    THEN h
    ELSE LET t == Head(tickers)
             h1 == IF t \in DOMAIN stock_ptrs
                   THEN set_price(h, stock_ptrs[t], new_prices[t])
                   ELSE h
         IN  update_stocks(h1, Tail(tickers), new_prices, stock_ptrs)

\* a variant of UseCorrelated that forgets to test for collected stocks
UseCorrelated_AnyUnion(current_prices, env) ==
    CorrelationMatrix_size(env.correlation_) > 0

\* the condition of "Step 2" of simulate_daily
UseCorrelated(current_prices, env) ==
    DOMAIN current_prices # {} /\ CorrelationMatrix_size(env.correlation_) > 0

\* a variant of NextDay that loses the increment
NextDay_Lost(d) == d

\* ++simulation_day_count_ (unsigned; the calls explored stay far below 2^32)
NextDay(d) == d + 1

SnapshotAll(price, pfs) == [p \in 1..Len(pfs) |-> snapshot_prices(price, pfs[p])]

\* MarketSimulator::simulate_daily
simulate_daily(m) ==
    LET collected == collect_all(m.price, m.portfolios_,
                                 [prices |-> EmptyMap, stock_ptrs |-> EmptyMap])
        current_prices == collected.prices
        m0 == [m EXCEPT !.portfolios_ = SnapshotAll(m.price, m.portfolios_), !.log = <<>>]
    IN  IF UseCorrelated(current_prices, m.env)
        THEN LET sim == simulate_market_step(m.mrng, current_prices, dt, m.env)
                 h1 == update_stocks(Heap(m0), SortedKeys(sim.new_prices), sim.new_prices,
                                     collected.stock_ptrs)
                 h2 == update_options_all(h1, m.env, m0.portfolios_, dt)
             IN  [WithHeap(m0, h2) EXCEPT
                     !.mrng = sim.rng,
                     !.day = NextDay(m.day),
                     !.daily = [branch |-> "correlated", current_prices |-> current_prices,
                                new_prices |-> sim.new_prices]]
        ELSE LET mc_visitor == [kind |-> "montecarlo", dt_ |-> dt]
                 h1 == accept_all(Heap(m0), mc_visitor, m0.portfolios_)
             IN  [WithHeap(m0, h1) EXCEPT
                     !.day = NextDay(m.day),
                     !.daily = [branch |-> "fallback", current_prices |-> current_prices,
                                new_prices |-> EmptyMap]]

\* a visitor applied as simulate_daily_uncorrelated, simulate_daily_historical
\* and apply_stress_test apply it: per portfolio, snapshot_prices then accept
RECURSIVE snapshot_accept_all(_, _, _, _)
snapshot_accept_all(m, v, p, n) ==
    IF p > n
    THEN m
    ELSE LET snapped == [m EXCEPT !.portfolios_[p] = snapshot_prices(m.price, @)]
             h == Portfolio_accept(Heap(snapped), v, snapped.portfolios_[p])
         IN  snapshot_accept_all(WithHeap(snapped, h), v, p + 1, n)

\* MarketSimulator::simulate_daily_uncorrelated
simulate_daily_uncorrelated(m) ==
    LET mc_visitor == [kind |-> "montecarlo", dt_ |-> dt]
        m1 == snapshot_accept_all([m EXCEPT !.log = <<>>], mc_visitor, 1, Len(m.portfolios_))
    IN  [m1 EXCEPT !.day = NextDay(m.day)]

\* MarketSimulator::simulate_daily_historical
simulate_daily_historical(m, returns) ==
    LET hist_visitor == HistoricalSimulationVisitor(returns, m.day)
        m1 == snapshot_accept_all([m EXCEPT !.log = <<>>], hist_visitor, 1, Len(m.portfolios_))
    IN  [m1 EXCEPT !.day = NextDay(m.day)]

\* MarketSimulator::apply_stress_test
apply_stress_test(m, price_shock, vol_shock, rate_shock) ==
    LET stress_visitor == [kind |-> "stress", price_shock_ |-> price_shock,
                           vol_shock_ |-> vol_shock, rate_shock_ |-> rate_shock]
    IN  snapshot_accept_all([m EXCEPT !.log = <<>>], stress_visitor, 1, Len(m.portfolios_))

\* MarketSimulator::simulate_days
RECURSIVE simulate_days(_, _)
simulate_days(m, num_days) ==
    IF num_days = 0 THEN m ELSE simulate_days(simulate_daily(m), num_days - 1)

(***************************************************************************)
(* VaRVisitor                                                              *)
(***************************************************************************)
\* std::sort of the P&L distribution (ascending)
RECURSIVE Insert(_, _)
Insert(x, xs) ==
    IF xs = <<>> THEN <<x>>
    ELSE IF RLe(x, Head(xs)) THEN <<x>> \o xs
    ELSE <<Head(xs)>> \o Insert(x, Tail(xs))

RECURSIVE Sort(_)
Sort(xs) == IF xs = <<>> THEN <<>> ELSE Insert(Head(xs), Sort(Tail(xs)))

\* a calculate_var that leaves the scenario prices in place
restore_prices_Skip(h, positions, original_prices, i) == h

\* "Restore original prices": set_price per position, in order
RECURSIVE restore_prices(_, _, _, _)
restore_prices(h, positions, original_prices, i) ==
    IF i > Len(positions)
    THEN h
    ELSE restore_prices(set_price(h, positions[i].instrument_, original_prices[i]),
                        positions, original_prices, i + 1)

\* one historical scenario of calculate_var on the state acc of the loop
\* ([h, pnl_distribution, scenario_values, scenario_starts], the last being the
\* prices the scenario started from): apply it, take the P&L, restore
scenario_outcome(acc, h1, positions, original_prices, initial_value) ==
    [h |-> restore_prices(h1, positions, original_prices, 1),
     pnl_distribution |->
         Append(acc.pnl_distribution,
                RSub(get_total_value(h1.price, positions), initial_value)),
     scenario_values |-> Append(acc.scenario_values, get_total_value(h1.price, positions)),
     scenario_starts |-> Append(acc.scenario_starts, acc.h.price)]

\* the loop of calculate_var over the historical scenarios, from scenario day
\* on; the loop state is evaluated once per iteration (a is its value)
RECURSIVE var_scenarios(_, _, _, _, _)
var_scenarios(acc, positions, historical_returns, initial_value, day) ==
    IF day > Len(historical_returns)
    THEN acc
    ELSE CHOOSE done \in
             {var_scenarios(
                  scenario_outcome(
                      a,
                      Portfolio_accept(a.h,
                                       HistoricalSimulationVisitor(historical_returns[day], 0),
                                       positions),
                      positions,
                      [i \in 1..Len(positions) |-> a.h.price[positions[i].instrument_]],
                      initial_value),
                  positions, historical_returns, initial_value, day + 1) : a \in {acc}} :
             TRUE

\* a calculate_var that always reports the worst scenario
var_index_Worst(confidence_level, size) == 0

\* static_cast<size_t>((1.0 - confidence_level_) * pnl_distribution.size())
var_index(confidence_level, size) ==
    RFloor(RMul(RSub(One, confidence_level), FromInt(size)))

\* -pnl_distribution[var_index] of the sorted distribution
var_pick(sorted, confidence_level) ==
    RNeg(sorted[var_index(confidence_level, Len(sorted)) + 1])

\* what calculate_var leaves and returns once the scenarios are done
var_result(done, initial_value, confidence_level) ==
    [h |-> done.h,
     result |-> var_pick(Sort(done.pnl_distribution), confidence_level),
     initial_value |-> initial_value,
     pnl_distribution |-> done.pnl_distribution,
     scenario_values |-> done.scenario_values,
     scenario_starts |-> done.scenario_starts]

\* the scenarios of calculate_var from the portfolio value initial_value
var_run(h, positions, historical_returns, confidence_level, initial_value) ==
    var_result(var_scenarios([h |-> [h EXCEPT !.log = <<>>], pnl_distribution |-> <<>>,
                              scenario_values |-> <<>>, scenario_starts |-> <<>>],
                             positions, historical_returns, initial_value, 1),
               initial_value, confidence_level)

\* VaRVisitor::calculate_var: the heap it leaves and what it returns, with
\* its locals initial_value, pnl_distribution (before the sort) and the
\* scenario values
calculate_var(h, positions, historical_returns, confidence_level) ==
    var_run(h, positions, historical_returns, confidence_level,
            get_total_value(h.price, positions))

(***************************************************************************)
(* GreeksVisitor and PortfolioGreeksVisitor, on the model of the simulator *)
(***************************************************************************)
\* GreeksVisitor::visit(const Stock&), visit(const Option&), visit(const Bond&)
GreeksVisitor_visit(price, tte, i) ==
    IF i \in Stocks
    THEN Greeks(One, Zero, Zero, Zero, Zero)
    ELSE IF i \in Options
    THEN calculate_greeks(price[underlying_[i]], strike_[i], tte[i], rate_, volatility_,
                          type_[i] = "Call")
    ELSE Greeks(Zero, Zero, Zero, RDiv(coupon_rate_[i], FromInt(365)),
                RMul(RNeg(duration_[i]), price[i]))

\* a variant that adds the instrument's Greeks without the quantity
add_position_greeks_Unweighted(total, g, qty) ==
    Greeks(RAdd(total.delta, g.delta), RAdd(total.gamma, g.gamma), RAdd(total.vega, g.vega),
           RAdd(total.theta, g.theta), RAdd(total.rho, g.rho))

\* total_greeks_.x += g.x * qty, for the five members
add_position_greeks(total, g, qty) ==
    Greeks(RAdd(total.delta, RMul(g.delta, qty)), RAdd(total.gamma, RMul(g.gamma, qty)),
           RAdd(total.vega, RMul(g.vega, qty)), RAdd(total.theta, RMul(g.theta, qty)),
           RAdd(total.rho, RMul(g.rho, qty)))

\* PortfolioGreeksVisitor::visit(const Portfolio&): the loop over the
\* positions, from total_greeks_
RECURSIVE PortfolioGreeksVisitor_visit(_, _, _, _)
PortfolioGreeksVisitor_visit(price, tte, positions, total_greeks_) ==
    IF positions = <<>>
    THEN total_greeks_
    ELSE PortfolioGreeksVisitor_visit(price, tte, Tail(positions),
             CHOOSE t \in {add_position_greeks(total_greeks_,
                                               GreeksVisitor_visit(price, tte,
                                                   Head(positions).instrument_),
                                               FromInt(Head(positions).quantity_))} : TRUE)

\* MarketSimulator::get_portfolio_greeks(id)
get_portfolio_greeks(price, tte, pfs, id) ==
    PortfolioGreeksVisitor_visit(price, tte, pfs[id], NoGreeks)

\* total.x += g.x, for the five members
add_greeks(total, g) ==
    Greeks(RAdd(total.delta, g.delta), RAdd(total.gamma, g.gamma), RAdd(total.vega, g.vega),
           RAdd(total.theta, g.theta), RAdd(total.rho, g.rho))

\* MarketSimulator::get_total_greeks: the loop over the portfolios, from total
RECURSIVE total_greeks_from(_, _, _, _)
total_greeks_from(price, tte, pfs, total) ==
    IF pfs = <<>>
    THEN total
    ELSE total_greeks_from(price, tte, Tail(pfs),
             CHOOSE t \in {add_greeks(total,
                               PortfolioGreeksVisitor_visit(price, tte, Head(pfs), NoGreeks))} :
                 TRUE)

get_total_greeks(price, tte, pfs) == total_greeks_from(price, tte, pfs, NoGreeks)

(***************************************************************************)
(* YieldCurve: tenors_, rates_ and flat_rate_; a flat curve has no tenors. *)
(* The rates are exact rationals ("exact") or doubles ("binary64").        *)
(***************************************************************************)
\* YieldCurve(double flat_rate = 0.05)
FlatCurve(flat_rate) == [tenors_ |-> <<>>, rates_ |-> <<>>, flat_rate_ |-> flat_rate]

\* YieldCurve(tenors, rates), for vectors of the same size
TenorCurve(tenors, rates) ==
    [tenors_ |-> tenors, rates_ |-> rates,
     flat_rate_ |-> IF rates = <<>> THEN Rat(1, 20) ELSE rates[1]]

\* an interpolation that weighs the right rate alone
interpolate_Unanchored(left, right, t) == RAdd(left, RMul(t, right))

\* rates_[i] + t * (rates_[i + 1] - rates_[i])
interpolate(left, right, t) == RAdd(left, RMul(t, RSub(right, left)))

\* the interpolation loop of YieldCurve::get_rate, from index i
RECURSIVE interpolate_from(_, _, _)
interpolate_from(curve, T, i) ==
    IF i >= Len(curve.tenors_)
    THEN curve.flat_rate_
    ELSE IF RLe(curve.tenors_[i], T) /\ RLe(T, curve.tenors_[i + 1])
         THEN LET t == RDiv(RSub(T, curve.tenors_[i]),
                            RSub(curve.tenors_[i + 1], curve.tenors_[i]))
              IN  interpolate(curve.rates_[i], curve.rates_[i + 1], t)
         ELSE interpolate_from(curve, T, i + 1)

\* YieldCurve::get_rate(T)
YieldCurve_get_rate(curve, T) ==
    IF curve.tenors_ = <<>> THEN curve.flat_rate_
    ELSE IF RLe(T, curve.tenors_[1]) THEN curve.rates_[1]
    ELSE IF RLe(curve.tenors_[Len(curve.tenors_)], T) THEN curve.rates_[Len(curve.rates_)]
    ELSE interpolate_from(curve, T, 1)

\* rate += delta in the arithmetic of the rates
Plus(arithmetic, rate, delta) ==
    IF arithmetic = "binary64" THEN DAdd(rate, delta) ELSE RAdd(rate, delta)

\* YieldCurve::bump(delta)
YieldCurve_bump(arithmetic, curve, delta) ==
    [tenors_ |-> curve.tenors_,
     rates_ |-> [i \in 1..Len(curve.rates_) |-> Plus(arithmetic, curve.rates_[i], delta)],
     flat_rate_ |-> Plus(arithmetic, curve.flat_rate_, delta)]

(***************************************************************************)
(* VolatilitySurface: strikes_, expiries_, vols_[expiry][strike] and       *)
(* flat_vol_.  Indices are 1-based here.                                   *)
(***************************************************************************)
\* VolatilitySurface(strikes, expiries, vols)
GridSurface(strikes, expiries, vols) ==
    [strikes_ |-> strikes, expiries_ |-> expiries, vols_ |-> vols,
     flat_vol_ |-> IF vols # <<>> /\ vols[1] # <<>>
                   THEN vols[1][(Len(vols[1]) \div 2) + 1]
                   ELSE Rat(1, 5)]

\* the loop of find_interp_indices, from index i
RECURSIVE find_interval(_, _, _)
find_interval(vec, val, i) ==
    IF i >= Len(vec)
    THEN [lo |-> 1, hi |-> 1, t |-> Zero]
    ELSE IF RLe(vec[i], val) /\ RLe(val, vec[i + 1])
         THEN [lo |-> i, hi |-> i + 1,
               t |-> RDiv(RSub(val, vec[i]), RSub(vec[i + 1], vec[i]))]
         ELSE find_interval(vec, val, i + 1)

\* a variant that extends the first segment below the grid
find_interp_indices_Extrapolating(vec, val) ==
    IF Len(vec) = 1 THEN [lo |-> 1, hi |-> 1, t |-> Zero]
    ELSE IF RLe(val, vec[1])
    THEN [lo |-> 1, hi |-> 2, t |-> RDiv(RSub(val, vec[1]), RSub(vec[2], vec[1]))]
    ELSE IF RLe(vec[Len(vec)], val) THEN [lo |-> Len(vec), hi |-> Len(vec), t |-> Zero]
    ELSE find_interval(vec, val, 1)

\* VolatilitySurface::find_interp_indices: lo, hi and the returned parameter
find_interp_indices(vec, val) ==
    IF Len(vec) = 1 THEN [lo |-> 1, hi |-> 1, t |-> Zero]
    ELSE IF RLe(val, vec[1]) THEN [lo |-> 1, hi |-> 1, t |-> Zero]
    ELSE IF RLe(vec[Len(vec)], val) THEN [lo |-> Len(vec), hi |-> Len(vec), t |-> Zero]
    ELSE find_interval(vec, val, 1)

\* the bilinear interpolation of get_vol
bilinear(vols, e, k) ==
    LET v0 == RAdd(vols[e.lo][k.lo], RMul(k.t, RSub(vols[e.lo][k.hi], vols[e.lo][k.lo])))
        v1 == RAdd(vols[e.hi][k.lo], RMul(k.t, RSub(vols[e.hi][k.hi], vols[e.hi][k.lo])))
    IN  RAdd(v0, RMul(e.t, RSub(v1, v0)))

\* VolatilitySurface::get_vol(strike, expiry)
get_vol(surface, strike, expiry) ==
    IF surface.strikes_ = <<>> \/ surface.expiries_ = <<>>
    THEN surface.flat_vol_
    ELSE bilinear(surface.vols_, find_interp_indices(surface.expiries_, expiry),
                  find_interp_indices(surface.strikes_, strike))

(***************************************************************************)
(* MarketEnvironment as the client holds it: spots_, yield_curves_ and     *)
(* default_yield_curve_.                                                   *)
(***************************************************************************)
\* MarketEnvironment() = default
NewEnvironment ==
    [spots_ |-> EmptyMap, yield_curves_ |-> EmptyMap,
     default_yield_curve_ |-> FlatCurve(Rat(1, 20))]

\* MarketEnvironment::set_spot
set_spot(e, ticker, p) == [e EXCEPT !.spots_ = MapPut(@, ticker, p)]

\* a lookup that, like std::map::operator[], inserts the missing key
get_spot_Inserting(e, ticker) ==
    IF ticker \in DOMAIN e.spots_
    THEN [value |-> e.spots_[ticker], thrown |-> "none", env |-> e]
    ELSE [value |-> Zero, thrown |-> "none",
          env |-> [e EXCEPT !.spots_ = MapPut(@, ticker, Zero)]]

\* MarketEnvironment::get_spot, a const member: the value returned or the
\* exception thrown, and the environment it leaves
get_spot(e, ticker) ==
    IF ticker \in DOMAIN e.spots_
    THEN [value |-> e.spots_[ticker], thrown |-> "none", env |-> e]
    ELSE [value |-> <<>>, thrown |-> "runtime_error", env |-> e]

\* MarketEnvironment::set_yield_curve
set_yield_curve(e, currency, curve) == [e EXCEPT !.yield_curves_ = MapPut(@, currency, curve)]

\* MarketEnvironment::get_yield_curve
get_yield_curve(e, currency) ==
    IF currency \in DOMAIN e.yield_curves_
    THEN e.yield_curves_[currency]
    ELSE e.default_yield_curve_

\* MarketEnvironment::get_rate(T, currency)
get_rate(e, T, currency) == YieldCurve_get_rate(get_yield_curve(e, currency), T)

\* MarketEnvironment::bump_rates
bump_rates(arithmetic, e, delta) ==
    [e EXCEPT !.yield_curves_ =
                 [c \in DOMAIN e.yield_curves_ |->
                     YieldCurve_bump(arithmetic, e.yield_curves_[c], delta)],
              !.default_yield_curve_ = YieldCurve_bump(arithmetic, e.default_yield_curve_, delta)]

\* MarketEnvironment::shock_spots
shock_spots(e, pct_change) ==
    [e EXCEPT !.spots_ = [t \in DOMAIN e.spots_ |-> RMul(e.spots_[t], RAdd(One, pct_change))]]

(***************************************************************************)
(* The state machine: a client that builds portfolios over the shared      *)
(* instruments and calls the simulator and the VaR calculator.             *)
(***************************************************************************)
VARIABLES
    portfolios_,            \* MarketSimulator::portfolios_: sequences of positions
    price,                  \* Instrument::current_price_ of every instrument
    tte,                    \* Option::time_to_expiry_ of every option
    simulation_day_count_,  \* MarketSimulator::simulation_day_count_
    market_env_,            \* MarketSimulator::market_env_
    model_rng,              \* generator_ and normal_dist_ of model_
    multi_rng,              \* generator_ and normal_dist_ of multi_asset_sim_
    log,                    \* set_price calls of the last operation, in order
    daily,                  \* locals of the last simulate_daily
    var_out,                \* result and locals of the last calculate_var
    stress_hist,            \* the run of identical apply_stress_test calls in progress
    lastOp,                 \* the last operation called and its arguments
    calls,                  \* number of revaluation calls made so far
    thrown,                 \* the exception that escaped the last operation
    env,                    \* the MarketEnvironment object of the client
    call,                   \* arguments and value of the last query
    models,                 \* two BlackScholesModel objects of the client
    jump_model              \* the JumpDiffusionModel object of the client

vars == <<portfolios_, price, tte, simulation_day_count_, market_env_, model_rng,
          multi_rng, log, daily, var_out, stress_hist, lastOp, calls, thrown, env,
          call, models, jump_model>>

\* inputs of the client
Quantities == {100, -50}
ReturnSeries == {<<Rat(1, 5), Rat(-1, 5)>>, <<Rat(-1, 2)>>}
StressScenarios == {<<Rat(-3, 10), Rat(1, 2), Rat(-1, 25)>>, <<Rat(1, 5), Zero, Zero>>}
\* scenarios whose volatility shock drives the stressed volatility below zero
NegativeVolScenarios == {<<Zero, Rat(-1, 2), Zero>>, <<Rat(1, 5), Rat(-3, 10), Zero>>}
\* inputs of the client that bumps the rates, as doubles: the rates 0.05,
\* 0.03, 0.04 and 0.045 and the bumps 0.0025, 0.2 and 0.01
D_0_05 == Double(<<9, 9, 9, 9, 9, 9, 9, 9, 9, 9, 9, 9, 10>>, -5)
D_0_03 == Double(<<14, 11, 8, 5, 1, 14, 11, 8, 5, 1, 14, 11, 8>>, -6)
D_0_04 == Double(<<4, 7, 10, 14, 1, 4, 7, 10, 14, 1, 4, 7, 11>>, -5)
D_0_045 == Double(<<7, 0, 10, 3, 13, 7, 0, 10, 3, 13, 7, 0, 10>>, -5)
D_0_0025 == Double(<<4, 7, 10, 14, 1, 4, 7, 10, 14, 1, 4, 7, 11>>, -9)
D_0_2 == Double(<<9, 9, 9, 9, 9, 9, 9, 9, 9, 9, 9, 9, 10>>, -3)
D_0_01 == Double(<<4, 7, 10, 14, 1, 4, 7, 10, 14, 1, 4, 7, 11>>, -7)
DoubleCurves ==
    {FlatCurve(D_0_03), FlatCurve(D_0_04),
     TenorCurve(<<Rat(1, 4), One, FromInt(2)>>, <<D_0_04, D_0_045, D_0_05>>)}
DoubleBumps == {D_0_0025, D_0_2, D_0_01, DNeg(D_0_0025), DNeg(D_0_2), DNeg(D_0_01)}
\* MarketEnvironment() = default, its rates as doubles
NewEnvironmentDouble == [NewEnvironment EXCEPT !.default_yield_curve_ = FlatCurve(D_0_05)]
\* surfaces, strikes and expiries of the client of a VolatilitySurface
Surfaces ==
    {GridSurface(<<FromInt(90), FromInt(100), FromInt(110)>>, <<Rat(1, 4), One>>,
                 << <<Rat(1, 4), Rat(1, 5), Rat(11, 50)>>,
                    <<Rat(6, 25), Rat(21, 100), Rat(23, 100)>> >>),
     GridSurface(<<FromInt(100)>>, <<Rat(1, 4), Rat(1, 2), One>>,
                 << <<Rat(3, 10)>>, <<Rat(1, 4)>>, <<Rat(1, 5)>> >>)}
ProbeStrikes ==
    {FromInt(80), FromInt(90), FromInt(95), FromInt(100), FromInt(110), FromInt(120)}
ProbeExpiries == {Rat(1, 12), Rat(1, 4), Rat(3, 8), Rat(1, 2), One, FromInt(2)}
\* inputs of the client of the two models
Seeds == {7, 42}
StepPrices == {FromInt(100), FromInt(150)}
\* inputs of the client of a JumpDiffusionModel
JumpIntensities == {One, FromInt(4)}
StepLengths == {Rat(1, 252), Rat(1, 4), One}
Shocks == {FromInt(-1), Zero, One}
\* inputs of the client of a MarketEnvironment
SpotTickers == {"AAPL", "GOOGL"}
QueryTickers == SpotTickers \cup {"MSFT"}
SpotPrices == {FromInt(150), FromInt(140)}
StoredCurrencies == {"USD"}
QueryCurrencies == StoredCurrencies \cup {"EUR"}
Curves ==
    {FlatCurve(Rat(3, 100)),
     TenorCurve(<<Rat(1, 4), One, FromInt(2)>>, <<Rat(1, 25), Rat(9, 200), Rat(1, 20)>>)}
ProbeTenors == {Rat(1, 8), Rat(1, 4), Rat(1, 2), One, Rat(3, 2), FromInt(2), FromInt(5)}
RateBumps == {Rat(1, 100), Rat(-1, 400)}
SpotShocks == {Rat(-1, 10)}
\* arguments S, K, T, r, sigma, is_call of price_option and calculate_greeks.
\* For T > 0 and S <= 0 or K <= 0 the code's value is a NaN or an infinity of
\* log(S / K); such S and K are taken at T <= 0, where no logarithm is taken.
PricingInputs ==
    {a \in {FromInt(-10), Zero, FromInt(100), FromInt(110), FromInt(120)}
            \X {FromInt(-5), Zero, FromInt(110)}
            \X {Rat(-1, 252), Zero, Rat(1, 4)}
            \X {Rat(1, 20)}
            \X {Rat(-3, 10), Rat(1, 5)}
            \X BOOLEAN :
        RLt(Zero, a[3]) => (RLt(Zero, a[1]) /\ RLt(Zero, a[2]))}
SpecExampleReturns ==
    << <<Rat(-3, 100)>>, <<Rat(-1, 100)>>, <<Zero>>, <<Rat(1, 100)>>, <<Rat(2, 100)>> >>
\* historical returns and confidence level of a VaRVisitor
VarCases ==
    {<<SpecExampleReturns, Rat(95, 100)>>,
     << << <<Rat(1, 10), Rat(1, 2)>>, <<Rat(-1, 5)>> >>, Rat(1, 2)>>}

NoDaily == [branch |-> "none", current_prices |-> EmptyMap, new_prices |-> EmptyMap]
NoVar == [result |-> Zero, initial_value |-> Zero, pnl_distribution |-> <<>>,
          scenario_values |-> <<>>, scenario_starts |-> <<>>]
NoCall == [name |-> "none", args |-> <<>>, value |-> <<>>]
\* two models as constructed: BlackScholesModel(), with the number of steps
\* made, the seed of the last set_seed (-1 before the first one) and the
\* arguments and values of the simulate_step calls made since
ModelNames == {"a", "b"}
NewModels ==
    [m \in ModelNames |-> [rng |-> NewRng(DefaultSeed), steps |-> 0, seed |-> -1, out |-> <<>>]]
NoStress == [run |-> 0, args |-> <<>>, pre1 |-> EmptyMap, pre2 |-> EmptyMap]

Machine ==
    [portfolios_ |-> portfolios_, price |-> price, tte |-> tte, rng |-> model_rng,
     mrng |-> multi_rng, day |-> simulation_day_count_, env |-> market_env_,
     log |-> <<>>, daily |-> NoDaily, thrown |-> "none", cenv |-> env,
     call |-> call, models |-> models, jump |-> jump_model]

Commit(m) ==
    /\ portfolios_' = m.portfolios_
    /\ price' = m.price
    /\ tte' = m.tte
    /\ model_rng' = m.rng
    /\ multi_rng' = m.mrng
    /\ simulation_day_count_' = m.day
    /\ market_env_' = m.env
    /\ log' = m.log
    /\ daily' = m.daily
    /\ thrown' = m.thrown
    /\ env' = m.cenv
    /\ call' = m.call
    /\ models' = m.models
    /\ jump_model' = m.jump

RECURSIVE TotalPositions(_)
TotalPositions(pfs) == IF pfs = <<>> THEN 0 ELSE Len(Head(pfs)) + TotalPositions(Tail(pfs))

\* MarketSimulator(): no portfolio, a default BlackScholesModel, a default
\* MarketEnvironment, simulation_day_count_ = 0; the instruments as constructed
InitWith(c, e) ==
    /\ portfolios_ = <<>>
    /\ price = InitialPrice
    /\ tte = InitialTte
    /\ simulation_day_count_ = 0
    /\ market_env_ = DefaultEnvironment
    /\ model_rng = NewRng(DefaultSeed)
    /\ multi_rng = NewRng(DefaultSeed)
    /\ log = <<>>
    /\ daily = NoDaily
    /\ var_out = NoVar
    /\ stress_hist = NoStress
    /\ lastOp = [name |-> "init", arg |-> <<>>]
    /\ calls = 0
    /\ thrown = "none"
    /\ env = e
    /\ call = c
    /\ models = NewModels
    /\ jump_model = NewJumpModel(DefaultJumpIntensity, DefaultSeed)

Init == InitWith(NoCall, NewEnvironment)

\* MarketSimulator::create_portfolio
CreatePortfolio ==
    /\ Len(portfolios_) < MaxPortfolios
    /\ Commit([Machine EXCEPT !.portfolios_ = Append(@, <<>>)])
    /\ lastOp' = [name |-> "create_portfolio", arg |-> <<Len(portfolios_) + 1>>]
    /\ var_out' = NoVar /\ stress_hist' = NoStress
    /\ UNCHANGED calls

\* Portfolio::add_position on get_portfolio(id)
AddPositionOf(quantities) ==
    /\ TotalPositions(portfolios_) < MaxPositions
    /\ \E id \in 1..Len(portfolios_), i \in Instruments, q \in quantities :
          /\ Commit([Machine EXCEPT !.portfolios_[id] = Append(@, Position(price, i, q))])
          /\ lastOp' = [name |-> "add_position", arg |-> <<id>>]
    /\ var_out' = NoVar /\ stress_hist' = NoStress
    /\ UNCHANGED calls

\* MarketSimulator::set_market_environment
SetMarketEnvironmentOf(matrices) ==
    /\ \E c \in matrices :
          /\ Commit([Machine EXCEPT !.env = [DefaultEnvironment EXCEPT !.correlation_ = c]])
          /\ lastOp' = [name |-> "set_market_environment", arg |-> <<>>]
    /\ var_out' = NoVar /\ stress_hist' = NoStress
    /\ UNCHANGED calls

\* Portfolio::snapshot_prices on get_portfolio(id)
SnapshotPrices ==
    /\ \E id \in 1..Len(portfolios_) :
          /\ Commit([Machine EXCEPT !.portfolios_[id] = snapshot_prices(price, @)])
          /\ lastOp' = [name |-> "snapshot_prices", arg |-> <<id>>]
    /\ var_out' = NoVar /\ stress_hist' = NoStress
    /\ UNCHANGED calls

\* Position::snapshot_price on get_portfolio(id).get_position(k)
SnapshotPrice ==
    /\ \E id \in 1..Len(portfolios_) : \E k \in 1..Len(portfolios_[id]) :
          /\ Commit([Machine EXCEPT !.portfolios_[id][k] = snapshot_price(price, @)])
          /\ lastOp' = [name |-> "snapshot_price", arg |-> <<id, k>>]
    /\ var_out' = NoVar /\ stress_hist' = NoStress
    /\ UNCHANGED calls

SimulateDaily ==
    /\ calls < MaxCalls
    /\ Commit(simulate_daily(Machine))
    /\ lastOp' = [name |-> "simulate_daily", arg |-> <<>>]
    /\ var_out' = NoVar /\ stress_hist' = NoStress
    /\ calls' = calls + 1

SimulateDailyUncorrelated ==
    /\ calls < MaxCalls
    /\ Commit(simulate_daily_uncorrelated(Machine))
    /\ lastOp' = [name |-> "simulate_daily_uncorrelated", arg |-> <<>>]
    /\ var_out' = NoVar /\ stress_hist' = NoStress
    /\ calls' = calls + 1

SimulateDailyHistorical ==
    /\ calls < MaxCalls
    /\ \E returns \in ReturnSeries :
          /\ Commit(simulate_daily_historical(Machine, returns))
          /\ lastOp' = [name |-> "simulate_daily_historical", arg |-> returns]
    /\ var_out' = NoVar /\ stress_hist' = NoStress
    /\ calls' = calls + 1

\* apply_stress_test; stress_hist keeps the prices before the last call (pre1)
\* and, when the call before it was the same call, before that one (pre2)
ApplyStressTestOf(scenarios) ==
    /\ calls < MaxCalls
    /\ \E sc \in scenarios :
          /\ Commit(apply_stress_test(Machine, sc[1], sc[2], sc[3]))
          /\ lastOp' = [name |-> "apply_stress_test", arg |-> sc]
          /\ stress_hist' =
                IF stress_hist.run >= 1 /\ stress_hist.args = sc
                THEN [run |-> 2, args |-> sc, pre1 |-> price, pre2 |-> stress_hist.pre1]
                ELSE [run |-> 1, args |-> sc, pre1 |-> price, pre2 |-> EmptyMap]
    /\ var_out' = NoVar
    /\ calls' = calls + 1

SimulateDays ==
    /\ \E n \in 1..(MaxCalls - calls) :
          /\ Commit(simulate_days(Machine, n))
          /\ lastOp' = [name |-> "simulate_days", arg |-> <<n>>]
          /\ calls' = calls + n
    /\ var_out' = NoVar /\ stress_hist' = NoStress

\* VaRVisitor(historical_returns, confidence).calculate_var(get_portfolio(id))
CalculateVar ==
    /\ \E id \in 1..Len(portfolios_), case \in VarCases :
          \E out \in {calculate_var(Heap(Machine), portfolios_[id], case[1], case[2])} :
              /\ Commit(WithHeap(Machine, out.h))
              /\ var_out' = [result |-> out.result, initial_value |-> out.initial_value,
                             pnl_distribution |-> out.pnl_distribution,
                             scenario_values |-> out.scenario_values,
                             scenario_starts |-> out.scenario_starts]
              /\ lastOp' = [name |-> "calculate_var", arg |-> <<id, case[1], case[2]>>]
    /\ stress_hist' = NoStress
    /\ UNCHANGED calls

\* a call on the client's objects: the environment it leaves, its value and
\* the exception it ends with
Answer(name, args, e, value, exception) ==
    /\ Commit([Machine EXCEPT !.call = [name |-> name, args |-> args, value |-> value],
                              !.thrown = exception, !.cenv = e])
    /\ lastOp' = [name |-> name, arg |-> args]
    /\ var_out' = NoVar /\ stress_hist' = NoStress

Query(name, args, value, exception) ==
    Answer(name, args, env, value, exception) /\ UNCHANGED calls

\* Model::simulate_step(current_price, dt) on one of the two models
ModelStep ==
    \E m \in ModelNames, current_price \in StepPrices :
        /\ models[m].steps < MaxSteps
        /\ \E r \in {simulate_step(models[m].rng, current_price, dt)} :
              /\ Commit([Machine EXCEPT
                            !.models[m] = [rng |-> r.rng, steps |-> @.steps + 1, seed |-> @.seed,
                                           out |-> Append(@.out, <<current_price, r.value>>)],
                            !.call = [name |-> "simulate_step", args |-> <<m, current_price>>,
                                      value |-> r.value]])
              /\ lastOp' = [name |-> "simulate_step", arg |-> <<m, current_price>>]
        /\ var_out' = NoVar /\ stress_hist' = NoStress
        /\ UNCHANGED calls

\* Model::set_seed(seed) on one of the two models
ModelSetSeed ==
    \E m \in ModelNames, seed \in Seeds :
        /\ Commit([Machine EXCEPT
                      !.models[m] = [rng |-> set_seed(@.rng, seed), steps |-> @.steps,
                                     seed |-> seed, out |-> <<>>],
                      !.call = [name |-> "set_seed", args |-> <<m, seed>>, value |-> <<>>]])
        /\ lastOp' = [name |-> "set_seed", arg |-> <<m, seed>>]
        /\ var_out' = NoVar /\ stress_hist' = NoStress
        /\ UNCHANGED calls

\* a get_portfolio_greeks that draws from the generator of the model
GetPortfolioGreeks_Drawing ==
    \E id \in 1..Len(portfolios_) :
        /\ Commit([Machine EXCEPT
                      !.rng = NormalDraw(model_rng).rng,
                      !.call = [name |-> "get_portfolio_greeks", args |-> <<id>>,
                                value |-> get_portfolio_greeks(price, tte, portfolios_, id)]])
        /\ lastOp' = [name |-> "get_portfolio_greeks", arg |-> <<id>>]
        /\ var_out' = NoVar /\ stress_hist' = NoStress
        /\ UNCHANGED calls

\* MarketSimulator::get_portfolio_greeks(id)
GetPortfolioGreeks ==
    \E id \in 1..Len(portfolios_) :
        Query("get_portfolio_greeks", <<id>>, get_portfolio_greeks(price, tte, portfolios_, id),
              "none")

\* MarketSimulator::get_total_greeks
GetTotalGreeks ==
    Query("get_total_greeks", <<>>, get_total_greeks(price, tte, portfolios_), "none")

\* MarketSimulator::get_portfolio_value(id)
GetPortfolioValue ==
    \E id \in 1..Len(portfolios_) :
        Query("get_portfolio_value", <<id>>, get_total_value(price, portfolios_[id]), "none")

\* VolatilitySurface::get_vol on the arguments chosen by the client
GetVol ==
    /\ call.name = "surface"
    /\ \E a \in {call.args} : Query("get_vol", a, get_vol(a[1], a[2], a[3]), "none")

SetSpot ==
    \E ticker \in SpotTickers, p \in SpotPrices :
        Answer("set_spot", <<ticker, p>>, set_spot(env, ticker, p), <<>>, "none")
        /\ UNCHANGED calls

GetSpot ==
    \E ticker \in QueryTickers : \E r \in {get_spot(env, ticker)} :
        Answer("get_spot", <<ticker>>, r.env, r.value, r.thrown) /\ UNCHANGED calls

SetYieldCurve ==
    \E currency \in StoredCurrencies, curve \in Curves :
        Answer("set_yield_curve", <<currency, curve>>, set_yield_curve(env, currency, curve),
               <<>>, "none")
        /\ UNCHANGED calls

GetYieldCurve ==
    \E currency \in QueryCurrencies :
        Query("get_yield_curve", <<currency>>, get_yield_curve(env, currency), "none")

GetRate ==
    \E T \in ProbeTenors, currency \in QueryCurrencies :
        Query("get_rate", <<T, currency>>, get_rate(env, T, currency), "none")

BumpRates ==
    /\ calls < MaxCalls
    /\ \E delta \in RateBumps :
          Answer("bump_rates", <<delta>>, bump_rates("exact", env, delta), <<>>, "none")
    /\ calls' = calls + 1

\* set_yield_curve with a curve whose rates are doubles
SetYieldCurveDouble ==
    \E currency \in QueryCurrencies, curve \in DoubleCurves :
        Answer("set_yield_curve", <<currency, curve>>, set_yield_curve(env, currency, curve),
               <<>>, "none")
        /\ UNCHANGED calls

\* bump_rates on rates that are doubles; the value kept is the environment
\* before the call and, when the call before was a bump_rates too, its
\* argument and the environment before it
BumpRatesDouble ==
    /\ calls < MaxCalls
    /\ \E delta \in DoubleBumps :
          Answer("bump_rates", <<delta>>, bump_rates("binary64", env, delta),
                 [before |-> env,
                  previous |-> IF call.name = "bump_rates"
                               THEN <<[delta |-> call.args[1], before |-> call.value.before]>>
                               ELSE <<>>],
                 "none")
    /\ calls' = calls + 1

ShockSpots ==
    /\ calls < MaxCalls
    /\ \E pct_change \in SpotShocks :
          Answer("shock_spots", <<pct_change>>, shock_spots(env, pct_change), <<>>, "none")
    /\ calls' = calls + 1

\* BlackScholesModel::price_option on the arguments chosen by the client
PriceOption ==
    /\ call.name = "arguments"
    /\ \E a \in {call.args} :
          Query("price_option", a, price_option(a[1], a[2], a[3], a[4], a[5], a[6]), "none")

\* BlackScholesModel::calculate_greeks on the arguments chosen by the client
CalculateGreeks ==
    /\ call.name = "arguments"
    /\ \E a \in {call.args} :
          Query("calculate_greeks", a,
                calculate_greeks(a[1], a[2], a[3], a[4], a[5], a[6]), "none")

\* JumpDiffusionModel(0.05, 0.20, jump_intensity, -0.05, 0.10, seed), before the
\* first step
ConstructJumpModel ==
    /\ jump_model.steps = 0
    /\ \E jump_intensity \in JumpIntensities, seed \in Seeds :
          /\ Commit([Machine EXCEPT !.jump = NewJumpModel(jump_intensity, seed)])
          /\ lastOp' = [name |-> "JumpDiffusionModel", arg |-> <<jump_intensity, seed>>]
    /\ var_out' = NoVar /\ stress_hist' = NoStress
    /\ UNCHANGED calls

\* a step of the JumpDiffusionModel: its value and the jumps it drew
JumpAnswer(name, args, r) ==
    /\ Commit([Machine EXCEPT
                  !.jump = r.model,
                  !.call = [name |-> name, args |-> args,
                            value |-> [value |-> r.value, num_jumps |-> r.num_jumps,
                                       poisson_mean |-> r.poisson_mean,
                                       poisson_gen |-> r.poisson_gen]]])
    /\ lastOp' = [name |-> name, arg |-> args]
    /\ var_out' = NoVar /\ stress_hist' = NoStress
    /\ UNCHANGED calls

\* JumpDiffusionModel::simulate_step(current_price, dt)
JumpStep ==
    /\ jump_model.steps < MaxSteps
    /\ \E current_price \in StepPrices, step \in StepLengths :
          JumpAnswer("jump_step", <<current_price, step>>,
                     JumpDiffusion_simulate_step(jump_model, current_price, step))

\* JumpDiffusionModel::simulate_step(current_price, dt, random_z, ticker, env)
JumpStepZ ==
    /\ jump_model.steps < MaxSteps
    /\ \E current_price \in StepPrices, step \in StepLengths, random_z \in Shocks :
          JumpAnswer("jump_step_z", <<current_price, step, random_z>>,
                     JumpDiffusion_simulate_step_z(jump_model, current_price, step, random_z,
                                                   "AAPL", DefaultEnvironment))

AddPosition == AddPositionOf(Quantities)
SetMarketEnvironment == SetMarketEnvironmentOf(CorrelationMatrices)
ApplyStressTest == ApplyStressTestOf(StressScenarios)
AddShares == AddPositionOf({100})

Next ==
    \/ CreatePortfolio
    \/ AddPosition
    \/ SetMarketEnvironment
    \/ SnapshotPrices
    \/ SnapshotPrice
    \/ SimulateDaily
    \/ SimulateDailyUncorrelated
    \/ SimulateDailyHistorical
    \/ ApplyStressTest
    \/ SimulateDays
    \/ CalculateVar

Spec == Init /\ [][Next]_vars

(***************************************************************************)
(* Clients that, like main.cpp, build their portfolios and set the market  *)
(* environment before the first revaluation call.                          *)
(***************************************************************************)
SetupPortfolio == calls = 0 /\ CreatePortfolio
SetupShares == calls = 0 /\ AddShares
SetupPosition == calls = 0 /\ AddPosition
SetupEnvironment == calls = 0 /\ SetMarketEnvironment

\* the client that steps the days
NextDaily ==
    \/ SetupPortfolio
    \/ SetupShares
    \/ SetupEnvironment
    \/ SimulateDaily
    \/ SimulateDays

SpecDaily == Init /\ [][NextDaily]_vars

\* the client that computes the VaR of its portfolios as the days pass
NextVaR ==
    \/ SetupPortfolio
    \/ SetupShares
    \/ SimulateDaily
    \/ CalculateVar

SpecVaR == Init /\ [][NextVaR]_vars

\* the client that tracks the P&L of its positions: positions are also added
\* after prices have moved
NextPnl ==
    \/ CreatePortfolio
    \/ AddPosition
    \/ SnapshotPrices
    \/ SnapshotPrice
    \/ ApplyStressTest

SpecPnl == Init /\ [][NextPnl]_vars

\* the client that mixes the four revaluation calls
NextReval ==
    \/ SetupPortfolio
    \/ SetupShares
    \/ SetupEnvironment
    \/ SimulateDaily
    \/ SimulateDailyUncorrelated
    \/ SimulateDailyHistorical
    \/ ApplyStressTest

SpecReval == Init /\ [][NextReval]_vars

\* the client that only stresses its portfolios
NextStress ==
    \/ SetupPortfolio
    \/ SetupPosition
    \/ ApplyStressTest

SpecStress == Init /\ [][NextStress]_vars

\* the client whose stress scenarios include volatility shocks below -0.20
ApplyNegativeVolStress == ApplyStressTestOf(NegativeVolScenarios \cup StressScenarios)

NextBadInput ==
    \/ SetupPortfolio
    \/ SetupPosition
    \/ ApplyNegativeVolStress

SpecBadInput == Init /\ [][NextBadInput]_vars

\* the client that reads the Greeks of its portfolios as the days pass
NextGreeks ==
    \/ SetupPortfolio
    \/ SetupPosition
    \/ SimulateDaily
    \/ GetPortfolioGreeks
    \/ GetTotalGreeks

SpecGreeks == Init /\ [][NextGreeks]_vars

\* the client that steps and reseeds two models
NextSeed ==
    \/ ModelStep
    \/ ModelSetSeed

SpecSeed == Init /\ [][NextSeed]_vars

\* the client that fills a MarketEnvironment, bumps it and reads it
SetupSpot == calls = 0 /\ SetSpot
SetupYieldCurve == calls = 0 /\ SetYieldCurve

NextEnvironment ==
    \/ SetupSpot
    \/ SetupYieldCurve
    \/ GetSpot
    \/ GetYieldCurve
    \/ GetRate
    \/ BumpRates
    \/ ShockSpots

SpecEnvironment == Init /\ [][NextEnvironment]_vars

\* the client that holds long positions, keeps the spots of a market
\* environment and shocks them
SetupHolding == calls = 0 /\ AddPositionOf({100, 50})

NextShock ==
    \/ SetupPortfolio
    \/ SetupHolding
    \/ SetupSpot
    \/ ShockSpots
    \/ GetPortfolioValue

SpecShock == Init /\ [][NextShock]_vars

\* the client that reads a volatility off a surface
InitSurface ==
    \E a \in Surfaces \X ProbeStrikes \X ProbeExpiries :
        InitWith([name |-> "surface", args |-> a, value |-> <<>>], NewEnvironment)

NextSurface == GetVol

SpecSurface == InitSurface /\ [][NextSurface]_vars

\* the client that bumps the rates of an environment up and down
SetupYieldCurveDouble == calls = 0 /\ SetYieldCurveDouble

NextBump ==
    \/ SetupYieldCurveDouble
    \/ BumpRatesDouble

SpecBump == InitWith(NoCall, NewEnvironmentDouble) /\ [][NextBump]_vars

\* the client that prices one option or asks for its Greeks
InitPricing ==
    \E a \in PricingInputs :
        InitWith([name |-> "arguments", args |-> a, value |-> <<>>], NewEnvironment)

NextPricing ==
    \/ PriceOption
    \/ CalculateGreeks

SpecPricing == InitPricing /\ [][NextPricing]_vars

\* the client that steps the days under correlation matrices of any ticker
\* order
SetupCorrelation == calls = 0 /\ SetMarketEnvironmentOf(OrderedMatrices)

NextCorrelated ==
    \/ SetupPortfolio
    \/ SetupShares
    \/ SetupCorrelation
    \/ SimulateDaily

SpecCorrelated == Init /\ [][NextCorrelated]_vars

\* the client that reads the value and the Greeks of its portfolios as the
\* days pass
NextQueries ==
    \/ SetupPortfolio
    \/ SetupShares
    \/ SetupEnvironment
    \/ SimulateDaily
    \/ GetPortfolioValue
    \/ GetPortfolioGreeks
    \/ GetTotalGreeks

SpecQueries == Init /\ [][NextQueries]_vars

\* the client that steps a JumpDiffusionModel
NextJump ==
    \/ ConstructJumpModel
    \/ JumpStep
    \/ JumpStepZ

SpecJump == Init /\ [][NextJump]_vars

(***************************************************************************)
(* Properties of simulate_daily                                            *)
(***************************************************************************)
\* the instruments held by the positions of the portfolios
HeldIn(pfs) ==
    UNION {{pfs[p][k].instrument_ : k \in 1..Len(pfs[p])} : p \in 1..Len(pfs)}

\* the stocks referenced directly or as the underlying of a held option
ReferencedStocks(pfs) ==
    (HeldIn(pfs) \cap Stocks) \cup {underlying_[o] : o \in HeldIn(pfs) \cap Options}

ReferencedTickers(pfs) == {ticker_[s] : s \in ReferencedStocks(pfs)}

\* the instruments of all positions of all portfolios, in visiting order
RECURSIVE Flatten(_)
Flatten(pfs) ==
    IF pfs = <<>>
    THEN <<>>
    ELSE [k \in 1..Len(Head(pfs)) |-> Head(pfs)[k].instrument_] \o Flatten(Tail(pfs))

Count(i, seq) == Cardinality({k \in 1..Len(seq) : seq[k] = i})

AfterDaily == lastOp.name \in {"simulate_daily", "simulate_days"}

\* the price an option has when it was last repriced from the current price
\* of its underlying, at its current time to expiry
FreshPrice(o) ==
    price_option(price[underlying_[o]], strike_[o], tte[o], rate_, volatility_,
                 type_[o] = "Call")

\* C1: within one simulate_daily call, on either branch, no Stock is updated
\* after an Option on it was repriced, so every held Option carries the price
\* computed from the updated price of its underlying.
C1_StocksBeforeOptions ==
    AfterDaily =>
        /\ \A a, b \in 1..Len(log) :
              (a < b /\ log[a] \in Options) => log[b] # underlying_[log[a]]
        /\ \A o \in HeldIn(portfolios_) \cap Options : price[o] = FreshPrice(o)

\* C2: during one simulate_daily call the price of each Stock object is
\* written at most once.
C2_OneWritePerStock ==
    AfterDaily => \A s \in Stocks : Count(s, log) <= 1

\* C3: on the correlated branch every Stock of the collected union, held
\* directly or referenced only as an underlying, has the new price the
\* multi-asset simulator produced for its ticker.
C3_UnionUpdated ==
    (AfterDaily /\ daily.branch = "correlated") =>
        \A s \in ReferencedStocks(portfolios_) :
            /\ ticker_[s] \in DOMAIN daily.new_prices
            /\ price[s] = daily.new_prices[ticker_[s]]

Covers(corr, tickers) == tickers \subseteq {corr.tickers[k] : k \in 1..Len(corr.tickers)}

C5_DayCounter ==
    /\ simulation_day_count_ = 0
    /\ [][/\ simulation_day_count_' >= simulation_day_count_
          /\ lastOp'.name = "simulate_daily" =>
                simulation_day_count_' = simulation_day_count_ + 1
          /\ lastOp'.name = "simulate_days" =>
                simulation_day_count_' = simulation_day_count_ + lastOp'.arg[1]]_vars

C5_Witness ==
    /\ lastOp.name = "simulate_days"
    /\ lastOp.arg = <<2>>
    /\ simulation_day_count_ = 2
    /\ daily.branch = "correlated"

(***************************************************************************)
(* Properties of calculate_var                                             *)
(***************************************************************************)
\* C6: calculate_var starts every historical scenario from the prices the
\* instruments had before the call, and when it returns every instrument has
\* the price it had before the call.
C6_VarRestoresPrices ==
    [][lastOp'.name = "calculate_var" =>
          /\ price' = price
          /\ Len(var_out'.scenario_starts) = Len(lastOp'.arg[2])
          /\ \A k \in 1..Len(var_out'.scenario_starts) :
                var_out'.scenario_starts[k] = price]_vars

C6_Witness ==
    /\ lastOp.name = "calculate_var"
    /\ Len(var_out.pnl_distribution) >= 2
    /\ \E k \in 1..Len(var_out.pnl_distribution) : var_out.pnl_distribution[k] # Zero
    /\ \E i \in HeldIn(portfolios_) : price[i] # InitialPrice[i]
    /\ HeldIn(<<portfolios_[lastOp.arg[1]]>>) \cap Options # {}

\* the value changes of the scenarios of the last calculate_var
VarDeltas ==
    [k \in 1..Len(var_out.scenario_values) |->
        RSub(var_out.scenario_values[k], var_out.initial_value)]

\* x is the element at 0-based index idx of the values of seq sorted ascending
IsOrderStatistic(x, seq, idx) ==
    /\ \E k \in 1..Len(seq) : seq[k] = x
    /\ Cardinality({k \in 1..Len(seq) : RLt(seq[k], x)}) <= idx
    /\ Cardinality({k \in 1..Len(seq) : RLe(seq[k], x)}) >= idx + 1

VarExample ==
    /\ lastOp.name = "calculate_var"
    /\ Len(portfolios_[lastOp.arg[1]]) = 1
    /\ portfolios_[lastOp.arg[1]][1].instrument_ \in Stocks
    /\ portfolios_[lastOp.arg[1]][1].quantity_ = 100
    /\ price[portfolios_[lastOp.arg[1]][1].instrument_] = FromInt(100)
    /\ lastOp.arg[2] = SpecExampleReturns
    /\ lastOp.arg[3] = Rat(95, 100)

\* C7: with N >= 1 scenarios and confidence alpha, calculate_var returns the
\* negation of the element at index floor((1 - alpha) * N) of the ascending
\* scenario value changes (scenario value minus initial value); for 100
\* shares of one stock priced 100, the returns -0.03, -0.01, 0, 0.01, 0.02
\* and alpha = 0.95 the result is 300.
C7_VarOrderStatistic ==
    lastOp.name = "calculate_var" =>
        LET N == Len(lastOp.arg[2])
            alpha == lastOp.arg[3]
            idx == RFloor(RMul(RSub(One, alpha), FromInt(N)))
        IN  /\ Len(var_out.scenario_values) = N
            /\ var_out.initial_value = get_total_value(price, portfolios_[lastOp.arg[1]])
            /\ IsOrderStatistic(RNeg(var_out.result), VarDeltas, idx)
            /\ VarExample => var_out.result = FromInt(300)

C7_Witness == VarExample /\ var_out.result = FromInt(300)

(***************************************************************************)
(* Properties of the P&L of positions                                      *)
(***************************************************************************)
\* C8: get_pnl is 0 right after snapshot_price and right after add_position
\* created the position, and get_total_pnl is 0 right after snapshot_prices,
\* whatever the quantities and prices.
C8_PnlZeroAfterSnapshot ==
    /\ lastOp.name = "snapshot_price" =>
          get_pnl(price, portfolios_[lastOp.arg[1]][lastOp.arg[2]]) = Zero
    /\ lastOp.name = "add_position" =>
          get_pnl(price, portfolios_[lastOp.arg[1]][Len(portfolios_[lastOp.arg[1]])]) = Zero
    /\ lastOp.name = "snapshot_prices" =>
          get_total_pnl(price, portfolios_[lastOp.arg[1]]) = Zero

C8_Witness ==
    /\ lastOp.name = "snapshot_prices"
    /\ LET positions == portfolios_[lastOp.arg[1]]
       IN  /\ Len(positions) >= 2
           /\ \E k \in 1..Len(positions) : positions[k].quantity_ < 0
           /\ \A k \in 1..Len(positions) :
                 /\ price[positions[k].instrument_] # InitialPrice[positions[k].instrument_]
                 /\ positions[k].last_price_ = price[positions[k].instrument_]

(***************************************************************************)
(* Properties of the revaluation calls                                     *)
(***************************************************************************)
AfterRevaluation ==
    lastOp.name \in {"simulate_daily", "simulate_daily_uncorrelated",
                     "simulate_daily_historical", "apply_stress_test"}

\* C9: after any sequence of simulate_daily, simulate_daily_uncorrelated,
\* simulate_daily_historical and apply_stress_test calls, every option with
\* time to expiry 0 is priced at its intrinsic value at the current price of
\* its underlying.
C9_IntrinsicAtExpiry ==
    AfterRevaluation =>
        \A o \in HeldIn(portfolios_) \cap Options :
            tte[o] = Zero =>
                price[o] = Intrinsic(price[underlying_[o]], strike_[o], type_[o] = "Call")

\* C10: two apply_stress_test calls in succession with the same shocks leave
\* every held Stock at its original price times (1 + price_shock)^2.
C10_StressTwiceSquares ==
    stress_hist.run = 2 =>
        \A s \in HeldIn(portfolios_) \cap Stocks :
            price[s] = RMul(stress_hist.pre2[s],
                            RMul(RAdd(One, stress_hist.args[1]),
                                 RAdd(One, stress_hist.args[1])))

(***************************************************************************)
(* Error handling of the bulk revaluation                                  *)
(***************************************************************************)
\* the volatility StressTestVisitor::visit(Option) priced with in the last call
StressedVol == RAdd(Rat(1, 5), lastOp.arg[2])

\* the held options whose re-pricing input of the last apply_stress_test was
\* a negative volatility or a negative spot
BadlyPriced ==
    {o \in HeldIn(portfolios_) \cap Options :
        RLt(StressedVol, Zero) \/ RLt(price[underlying_[o]], Zero)}

\* C11: a bulk revaluation that meets an instrument whose re-pricing input
\* violates a precondition (negative volatility, negative spot) leaves that
\* instrument's price as it was before the call and reports the error when
\* the call ends.
C11_BadInputSkipped ==
    (lastOp.name = "apply_stress_test" /\ BadlyPriced # {}) =>
        /\ \A o \in BadlyPriced : price[o] = stress_hist.pre1[o]
        /\ thrown # "none"

(***************************************************************************)
(* Input validation of the pricing functions                               *)
(***************************************************************************)
Priced == call.name \in {"price_option", "calculate_greeks"}

\* C12: price_option and calculate_greeks fail with InvalidInput, and return
\* no value, whenever S <= 0, K <= 0 or sigma < 0.
C12_InvalidInputRejected ==
    (Priced /\ (RLe(call.args[1], Zero) \/ RLe(call.args[2], Zero)
                  \/ RLt(call.args[5], Zero))) =>
        thrown = "InvalidInput"

(***************************************************************************)
(* Lookups of the MarketEnvironment                                        *)
(***************************************************************************)
\* what a step that is a lookup of an unknown key must do
UnknownCurrencyStep ==
    (lastOp'.name = "get_yield_curve" /\ lastOp'.arg[1] \notin DOMAIN env.yield_curves_) =>
        /\ thrown' = "none"
        /\ call'.value = env.default_yield_curve_
        /\ call'.value.tenors_ = <<>>
        /\ env' = env

UnknownTickerStep ==
    (lastOp'.name = "get_spot" /\ lastOp'.arg[1] \notin DOMAIN env.spots_) =>
        /\ thrown' # "none"
        /\ env' = env

\* C13: get_yield_curve for a currency that was never set returns the default
\* flat curve and does not fail; get_spot for a ticker that was never set
\* fails with an error and leaves the market environment unchanged.
C13_UnknownKeys == [][UnknownCurrencyStep /\ UnknownTickerStep]_vars

\* a failed get_spot on an environment that holds spots and a curve
C13_Witness ==
    /\ lastOp.name = "get_spot"
    /\ thrown = "runtime_error"
    /\ lastOp.arg[1] \notin DOMAIN env.spots_
    /\ DOMAIN env.spots_ # {}
    /\ DOMAIN env.yield_curves_ # {}

(***************************************************************************)
(* Determinism after set_seed                                              *)
(***************************************************************************)
\* the calls both models have made since their last set_seed agree in their
\* arguments up to the i-th
SameCalls(i) == \A j \in 1..i : models["a"].out[j][1] = models["b"].out[j][1]

\* C14: two models of the same type and parameters that each received
\* set_seed(s) return identical values for identical subsequent simulate_step
\* calls, however many steps each had made before set_seed.
C14_SeedDetermines ==
    (models["a"].seed = models["b"].seed /\ models["a"].seed # -1) =>
        \A i \in 1..Len(models["a"].out) :
            (i <= Len(models["b"].out) /\ SameCalls(i)) =>
                models["a"].out[i][2] = models["b"].out[i][2]

(***************************************************************************)
(* Portfolio Greeks                                                        *)
(***************************************************************************)
\* the component-wise sum of a sequence of Greeks
GreeksSum(gs) ==
    Greeks(RSum([k \in 1..Len(gs) |-> gs[k].delta]), RSum([k \in 1..Len(gs) |-> gs[k].gamma]),
           RSum([k \in 1..Len(gs) |-> gs[k].vega]), RSum([k \in 1..Len(gs) |-> gs[k].theta]),
           RSum([k \in 1..Len(gs) |-> gs[k].rho]))

\* quantity times the Greeks of the instrument of a position
PositionGreeks(pos) ==
    LET g == GreeksVisitor_visit(price, tte, pos.instrument_)
        q == FromInt(pos.quantity_)
    IN  Greeks(RMul(q, g.delta), RMul(q, g.gamma), RMul(q, g.vega), RMul(q, g.theta),
               RMul(q, g.rho))

\* the Greeks of a portfolio holding the given positions
GreeksOfPositions(positions) == PortfolioGreeksVisitor_visit(price, tte, positions, NoGreeks)

\* C15: the Greeks of a portfolio are the sum over its positions of quantity
\* times the Greeks of the instrument; the Greeks of a portfolio holding the
\* positions of P1 and of P2 are the component-wise sum of those of P1 and of
\* P2; get_total_greeks is the component-wise sum of get_portfolio_greeks
\* over all portfolios.
C15_GreeksAdditive ==
    /\ lastOp.name = "get_portfolio_greeks" =>
           call.value = GreeksSum([k \in 1..Len(portfolios_[lastOp.arg[1]]) |->
                                      PositionGreeks(portfolios_[lastOp.arg[1]][k])])
    /\ \A p1, p2 \in 1..Len(portfolios_) :
           GreeksOfPositions(portfolios_[p1] \o portfolios_[p2]) =
               GreeksSum(<<GreeksOfPositions(portfolios_[p1]), GreeksOfPositions(portfolios_[p2])>>)
    /\ lastOp.name = "get_total_greeks" =>
           call.value = GreeksSum([p \in 1..Len(portfolios_) |->
                                      get_portfolio_greeks(price, tte, portfolios_, p)])

\* get_total_greeks over two portfolios, one of them holding an option whose
\* Greeks are not all zero, after the prices have moved
C15_Witness ==
    /\ lastOp.name = "get_total_greeks"
    /\ Len(portfolios_) = 2
    /\ Len(portfolios_[1]) = 1 /\ Len(portfolios_[2]) = 1
    /\ simulation_day_count_ > 0
    /\ \E p \in 1..2 :
          /\ portfolios_[p][1].instrument_ \in Options
          /\ GreeksVisitor_visit(price, tte, portfolios_[p][1].instrument_) # NoGreeks
          /\ portfolios_[p][1].quantity_ # 1

(***************************************************************************)
(* Delta of a call and of a put on the same inputs                         *)
(***************************************************************************)
\* the delta calculate_greeks returns on the arguments of the last call, as a
\* call and as a put; one of the two is the value of the last call
DeltaAs(is_call) ==
    IF call.args[6] = is_call
    THEN call.value.delta
    ELSE calculate_greeks(call.args[1], call.args[2], call.args[3], call.args[4],
                          call.args[5], is_call).delta

DeltaDifference == RSub(DeltaAs(TRUE), DeltaAs(FALSE))

\* C16: for any K, T, sigma, r and any spot S, the delta of a call minus the
\* delta of a put on the same inputs is 1.
C16_DeltaParity == call.name = "calculate_greeks" => DeltaDifference = One

\* C16 as amended: the difference is 1 for T > 0 with S > 0, K > 0 and
\* sigma > 0, and for T <= 0 with S # K; for T <= 0 with S = K both deltas
\* are 0 and the difference is 0.
C16_DeltaParityOffStrike ==
    call.name = "calculate_greeks" =>
        LET S == call.args[1]
            K == call.args[2]
            T == call.args[3]
            sigma == call.args[5]
        IN  /\ (RLt(Zero, T) /\ RLt(Zero, S) /\ RLt(Zero, K) /\ RLt(Zero, sigma)) =>
                   DeltaDifference = One
            /\ (RLe(T, Zero) /\ S # K) => DeltaDifference = One
            /\ (RLe(T, Zero) /\ S = K) =>
                   (DeltaAs(TRUE) = Zero /\ DeltaAs(FALSE) = Zero)

\* the Greeks of a live option whose call delta lies strictly between 0 and 1
C16_Witness ==
    /\ call.name = "calculate_greeks"
    /\ RLt(Zero, call.args[3]) /\ RLt(Zero, call.args[5])
    /\ RLt(Zero, DeltaAs(TRUE)) /\ RLt(DeltaAs(TRUE), One)
    /\ DeltaAs(TRUE) # Rat(1, 2)

(***************************************************************************)
(* Bumping the rates up and down                                           *)
(***************************************************************************)
\* the last two calls were bump_rates(delta) and bump_rates(-delta)
BumpedUpAndDown ==
    /\ call.name = "bump_rates"
    /\ call.value.previous # <<>>
    /\ call.args[1] = DNeg(call.value.previous[1].delta)

\* C17: bump_rates(+delta) followed by bump_rates(-delta) returns every rate
\* of every stored curve and of the default curve to its original value, so
\* that get_rate is the same as before the two calls for every currency.
C17_BumpRoundTrip ==
    BumpedUpAndDown =>
        /\ env = call.value.previous[1].before
        /\ \A currency \in QueryCurrencies :
               get_rate(env, Zero, currency) =
                   get_rate(call.value.previous[1].before, Zero, currency)

(***************************************************************************)
(* Rates of a bumped curve                                                 *)
(***************************************************************************)
\* T lies between the first and the last tenor of a tenor-based curve
InsideGrid(curve, T) ==
    /\ curve.tenors_ # <<>>
    /\ RLe(curve.tenors_[1], T)
    /\ RLe(T, curve.tenors_[Len(curve.tenors_)])

\* what a bump_rates(delta) step does to the rates read from a stored curve
BumpStep ==
    lastOp'.name = "bump_rates" =>
        \A currency \in DOMAIN env.yield_curves_ : \A T \in ProbeTenors :
            InsideGrid(env.yield_curves_[currency], T) =>
                YieldCurve_get_rate(env'.yield_curves_[currency], T) =
                    RAdd(YieldCurve_get_rate(env.yield_curves_[currency], T), lastOp'.arg[1])

\* C18: for a tenor-based YieldCurve and any T between its first and its last
\* tenor, get_rate(T) after bump(delta) is get_rate(T) before the bump plus
\* delta.
C18_BumpShiftsRate == [][BumpStep]_vars

\* a bumped tenor-based curve whose rate at T = 1/2 is interpolated between
\* two of its points
C18_Witness ==
    /\ lastOp.name = "bump_rates"
    /\ "USD" \in DOMAIN env.yield_curves_
    /\ InsideGrid(env.yield_curves_["USD"], Rat(1, 2))
    /\ \A i \in 1..Len(env.yield_curves_["USD"].rates_) :
           YieldCurve_get_rate(env.yield_curves_["USD"], Rat(1, 2)) #
               env.yield_curves_["USD"].rates_[i]

(***************************************************************************)
(* A spot shock and the value of a portfolio                               *)
(***************************************************************************)
\* 100 shares of the stock priced 150 and 50 shares of the stock priced 140
ExamplePortfolio(positions) ==
    /\ Len(positions) = 2
    /\ \E k \in 1..2 : positions[k].instrument_ = "apple" /\ positions[k].quantity_ = 100
    /\ \E k \in 1..2 : positions[k].instrument_ = "google" /\ positions[k].quantity_ = 50

\* the spots of the two stocks were set to their prices, and then shocked
\* once by -0.10
SpotsShocked ==
    /\ calls = 1
    /\ DOMAIN env.spots_ = {"AAPL", "GOOGL"}
    /\ env.spots_["AAPL"] = FromInt(135) /\ env.spots_["GOOGL"] = FromInt(126)

\* C19: the portfolio of 100 shares at 150 and 50 shares at 140 has the total
\* value 22 000, and 19 800 after shock_spots(-0.10) on the market
\* environment.
C19_ShockedValue ==
    (lastOp.name = "get_portfolio_value" /\ ExamplePortfolio(portfolios_[lastOp.arg[1]])) =>
        /\ calls = 0 => call.value = FromInt(22000)
        /\ SpotsShocked => call.value = FromInt(19800)

(***************************************************************************)
(* Volatilities below the grid                                             *)
(***************************************************************************)
\* the value at x of the piecewise linear function through the points
\* (xs[i], ys[i]), constant outside them
AlongEdge(xs, ys, x) ==
    IF RLe(x, xs[1]) THEN ys[1]
    ELSE IF RLe(xs[Len(xs)], x) THEN ys[Len(ys)]
    ELSE LET i == CHOOSE j \in 1..(Len(xs) - 1) : RLe(xs[j], x) /\ RLt(x, xs[j + 1])
         IN  RAdd(RMul(ys[i], RDiv(RSub(xs[i + 1], x), RSub(xs[i + 1], xs[i]))),
                  RMul(ys[i + 1], RDiv(RSub(x, xs[i]), RSub(xs[i + 1], xs[i]))))

FirstStrikeColumn(surface) == [e \in 1..Len(surface.expiries_) |-> surface.vols_[e][1]]
FirstExpiryRow(surface) == surface.vols_[1]

DecayStep ==
    lastOp'.name = "simulate_daily" =>
        \A o \in HeldIn(portfolios_) \cap Options :
            /\ tte'[o] = RMax(Zero, RSub(tte[o], dt))
            /\ RLe(Zero, tte'[o])
            /\ RLe(tte'[o], tte[o])

\* C21: each simulate_daily call replaces the time to expiry T of every Option
\* by max(0, T - 1/252) exactly once, also when the same Option is held by
\* several positions or portfolios, so that T is never negative and never
\* increases.
C21_DecayOncePerDay == [][DecayStep]_vars

(***************************************************************************)
(* The shocks of simulate_market_step                                      *)
(***************************************************************************)
IndexOf(seq, x) == CHOOSE k \in 1..Len(seq) : seq[k] = x

\* the shock of ticker t when the tickers, in ascending order, are stepped
\* with the independent draws Z under the matrix corr: the component of L * Z
\* at the index of t in the ticker list of the matrix when the matrix has the
\* size of the tickers and covers them, and the draw of t itself otherwise
ShockOf(corr, tickers, Z, t) ==
    IF /\ Len(corr.tickers) = Len(tickers)
       /\ Covers(corr, {tickers[k] : k \in 1..Len(tickers)})
    THEN Dot(corr.L[IndexOf(corr.tickers, t)], Z)
    ELSE Z[IndexOf(tickers, t)]

\* what the simulate_market_step of a simulate_daily step must produce
MarketStep ==
    (lastOp'.name = "simulate_daily" /\ daily'.branch = "correlated") =>
        LET tickers == SortedKeys(daily'.current_prices)
            Z == DrawN(multi_rng, Len(tickers)).z
        IN  \A t \in DOMAIN daily'.current_prices :
                daily'.new_prices[t] =
                    simulate_step_z(daily'.current_prices[t], dt,
                                    ShockOf(market_env_.correlation_, tickers, Z, t),
                                    t, market_env_)

\* C22: simulate_market_step applies the Cholesky transform (Z_corr = L * Z)
\* exactly when the correlation matrix has size n and covers the n tickers
\* being stepped, each ticker then receiving the component of L * Z at its own
\* index in the ticker list of the matrix; in every other case each ticker
\* receives its own independent draw.
C22_ShockPerTicker == [][MarketStep]_vars

(***************************************************************************)
(* Stocks held next to options on them                                     *)
(***************************************************************************)
\* C23: the stock prices produced by simulate_daily on the correlated branch
\* do not depend on the order of the positions: a Stock held directly by a
\* position has the new price of its ticker whether an Option on that Stock
\* comes before or after it in the portfolios.
C23_HeldStocksUpdated ==
    (lastOp.name = "simulate_daily" /\ daily.branch = "correlated") =>
        \A s \in HeldIn(portfolios_) \cap Stocks :
            /\ ticker_[s] \in DOMAIN daily.new_prices
            /\ price[s] = daily.new_prices[ticker_[s]]

(***************************************************************************)
(* The P&L of a revaluation call                                           *)
(***************************************************************************)
\* what a revaluation step must leave as the P&L of every position
PnlStep ==
    lastOp'.name \in {"simulate_daily", "simulate_daily_uncorrelated",
                      "simulate_daily_historical", "apply_stress_test"} =>
        \A p \in 1..Len(portfolios_') : \A k \in 1..Len(portfolios_'[p]) :
            get_pnl(price', portfolios_'[p][k]) =
                RMul(FromInt(portfolios_'[p][k].quantity_),
                     RSub(price'[portfolios_'[p][k].instrument_],
                          price[portfolios_'[p][k].instrument_]))

\* C24: after any single call of simulate_daily, simulate_daily_uncorrelated,
\* simulate_daily_historical or apply_stress_test, get_pnl of every position
\* is its quantity times (instrument price after the call minus instrument
\* price at the start of the call), also for instruments shared between
\* portfolios.
C24_PnlOfTheCall == [][PnlStep]_vars

(***************************************************************************)
(* What calculate_var leaves besides the prices                            *)
(***************************************************************************)
\* C25: calculate_var leaves the time to expiry of every Option, the quantity
\* of every position and the snapshot price of every position exactly as
\* they were before the call.
C25_VarKeepsExpiries ==
    [][lastOp'.name = "calculate_var" =>
          /\ tte' = tte
          /\ \A p \in 1..Len(portfolios_) : \A k \in 1..Len(portfolios_[p]) :
                /\ portfolios_'[p][k].quantity_ = portfolios_[p][k].quantity_
                /\ portfolios_'[p][k].last_price_ = portfolios_[p][k].last_price_]_vars

(***************************************************************************)
(* Bonds under simulate_daily                                              *)
(***************************************************************************)
\* what a simulate_daily step does to the bonds: on the correlated branch no
\* bond price is written; on the fallback branch the price of every held
\* bond is written once per position holding it
BondStep ==
    lastOp'.name = "simulate_daily" =>
        /\ daily'.branch = "correlated" =>
               \A b \in Bonds : price'[b] = price[b] /\ Count(b, log') = 0
        /\ daily'.branch = "fallback" =>
               \A b \in HeldIn(portfolios_) \cap Bonds :
                   Count(b, log') = Count(b, Flatten(portfolios_)) /\ Count(b, log') > 0
        /\ \A b \in Bonds :
               Count(b, log') > 0 =>
                   \/ ReferencedTickers(portfolios_) = {}
                   \/ CorrelationMatrix_size(market_env_.correlation_) = 0

\* C26: on the correlated branch simulate_daily leaves the price of every
\* Bond unchanged, whereas on the fallback branch it revalues every Bond; a
\* Bond is therefore revalued by simulate_daily only when no stock ticker is
\* collected or no correlation matrix is set.
C26_BondsOnFallbackOnly == [][BondStep]_vars

\* a correlated day that moved a stock of a portfolio which also holds a bond
C26_Witness ==
    /\ lastOp.name = "simulate_daily"
    /\ daily.branch = "correlated"
    /\ "treasury" \in HeldIn(portfolios_)
    /\ \E s \in HeldIn(portfolios_) \cap Stocks : price[s] # InitialPrice[s]

(***************************************************************************)
(* The return applied by simulate_daily_historical                         *)
(***************************************************************************)
\* what a simulate_daily_historical(returns) step does to the stocks held by
\* exactly one position, and to the day counter
HistoricalStep ==
    lastOp'.name = "simulate_daily_historical" =>
        LET returns == lastOp'.arg
            N == Len(returns)
            d == simulation_day_count_
        IN  /\ \A s \in Stocks :
                   Count(s, Flatten(portfolios_)) = 1 =>
                       price'[s] = RMul(price[s], RAdd(One, returns[(d % N) + 1]))
            /\ simulation_day_count_' = d + 1

\* C27: simulate_daily_historical(returns) with a non-empty returns list of
\* length N multiplies the price of each Stock held by a single position by
\* (1 + returns[d mod N]), d being the day counter at the start of the call,
\* so that consecutive calls walk through the returns cyclically.
C27_HistoricalReturnOfTheDay == [][HistoricalStep]_vars

\* the second of two consecutive calls with the same two returns, on a stock
\* held by one position: the second return was applied after the first
C27_Witness ==
    /\ lastOp.name = "simulate_daily_historical"
    /\ Len(lastOp.arg) = 2
    /\ simulation_day_count_ = 2
    /\ \E s \in Stocks :
          /\ Count(s, Flatten(portfolios_)) = 1
          /\ price[s] = RMul(RMul(InitialPrice[s], RAdd(One, lastOp.arg[1])),
                             RAdd(One, lastOp.arg[2]))
          /\ price[s] # InitialPrice[s]

(***************************************************************************)
(* What apply_stress_test leaves alone                                     *)
(***************************************************************************)
\* C28: apply_stress_test leaves the day counter and the time to expiry of
\* every Option unchanged.
C28_StressKeepsTime ==
    [][lastOp'.name = "apply_stress_test" =>
          /\ simulation_day_count_' = simulation_day_count_
          /\ tte' = tte]_vars

\* a stress test, after a day has passed, that repriced a held option which
\* has time left
C28_Witness ==
    /\ lastOp.name = "apply_stress_test"
    /\ simulation_day_count_ > 0
    /\ \E o \in HeldIn(portfolios_) \cap Options :
          /\ RLt(Zero, tte[o])
          /\ Count(o, log) > 0
          /\ price[o] # stress_hist.pre1[o]

(***************************************************************************)
(* The read-only calls                                                     *)
(***************************************************************************)
\* C29: get_portfolio_value, get_portfolio_greeks and get_total_greeks change
\* no instrument price, no Option time to expiry, no position quantity or
\* snapshot price, and neither the day counter nor the random-generator state
\* of the model.
C29_QueriesChangeNothing ==
    [][lastOp'.name \in {"get_portfolio_value", "get_portfolio_greeks", "get_total_greeks"} =>
          /\ price' = price
          /\ tte' = tte
          /\ portfolios_' = portfolios_
          /\ simulation_day_count_' = simulation_day_count_
          /\ model_rng' = model_rng
          /\ multi_rng' = multi_rng]_vars

\* the Greeks of a portfolio holding an option, read after the model has
\* drawn from its generator and days have passed
C29_Witness ==
    /\ lastOp.name = "get_portfolio_greeks"
    /\ HeldIn(<<portfolios_[lastOp.arg[1]]>>) \cap Options # {}
    /\ call.value # NoGreeks
    /\ simulation_day_count_ > 0
    /\ model_rng # NewRng(DefaultSeed)

(***************************************************************************)
(* The number of jumps of a JumpDiffusionModel step                        *)
(***************************************************************************)
\* C30: in every JumpDiffusionModel step of length dt, with the internal
\* shock and with the externally supplied shock alike, the number of jumps N
\* is drawn from a Poisson distribution whose mean is lambda * dt, lambda
\* being the jump intensity of the model.
C30_JumpsScaleWithStep ==
    call.name \in {"jump_step", "jump_step_z"} =>
        LET scaled == [mean |-> RMul(jump_model.jump_intensity_, call.args[2])]
        IN  /\ call.value.poisson_mean = scaled.mean
            /\ call.value.num_jumps = PoissonDraw(scaled, call.value.poisson_gen).n

====
